---- MODULE Spec2Model ----
(***************************************************************************)
(* Scoring, weather-quality and itinerary logic of the travel planner      *)
(* (src/web.py and src/app.py).                                            *)
(*                                                                         *)
(* Numbers.  The code computes with Python floats.  The model computes the *)
(* same expressions in exact arithmetic: a weight, a rating and a trip     *)
(* factor are integers counting tenths (0.3 is 3, 4.5 is 45, 1.2 is 12), a *)
(* temperature counts tenths of a degree, and every quotient is a          *)
(* normalised fraction [num, den] with den > 0.                            *)
(*                                                                         *)
(* Text.  A weather description is a sequence of one-character strings, so *)
(* that Python's substring test `"clear" in condition` is computed.        *)
(***************************************************************************)
EXTENDS Integers, Sequences, FiniteSets, TLC

VARIABLES
    places,                   \* recommend_places: the places argument
    traffic_data,             \* recommend_places: the traffic_data argument
    weather_quality,          \* recommend_places: the weather_quality argument
    user_preferences,         \* recommend_places: the user_preferences argument
    recommendations,          \* web.py result, sort_by_travel_time=False; input of generate_itinerary
    recommendations_by_time,  \* web.py result, sort_by_travel_time=True
    app_recommendations,      \* app.py result
    response,                 \* the OpenWeather response given to get_weather_data_cached
    weather_data,             \* result of get_weather_data_cached; input of generate_itinerary
    num_days,                 \* generate_itinerary: num_days
    itinerary,                \* web.py generate_itinerary result
    app_itinerary,            \* app.py generate_itinerary result
    traffic_responses,        \* the Distance Matrix responses, one per place
    destination,              \* st.session_state.destination
    lat,                      \* st.session_state.lat
    lng,                      \* st.session_state.lng
    user_lat,                 \* st.session_state.user_lat
    user_lng,                 \* st.session_state.user_lng
    pit_stops,                \* st.session_state.pit_stops
    pit_stop_count,           \* st.session_state.pit_stop_count
    pit_stop_data,            \* st.session_state.pit_stop_data
    handler,                  \* the handler that ran in the last script run of the planning page
    messages,                 \* st.session_state.messages
    gemini_chat,              \* st.session_state.gemini_chat
    lang_code,                \* st.session_state.lang_code
    translations,             \* the table returned by load_translations()
    trip_option,              \* index of the option selected in the trip-type selectbox
    current_month_num,        \* datetime.now().month
    seasonal,                 \* the seasonal recommendations shown on the Trip Ideas page
    done                      \* the operations applied so far

vars == <<places, traffic_data, weather_quality, user_preferences,
          recommendations, recommendations_by_time, app_recommendations,
          response, weather_data,
          num_days, itinerary, app_itinerary, traffic_responses,
          destination, lat, lng, user_lat, user_lng,
          pit_stops, pit_stop_count, pit_stop_data, handler,
          messages, gemini_chat, lang_code, translations, trip_option,
          current_month_num, seasonal, done>>

recVars == <<places, traffic_data, weather_quality, user_preferences,
             recommendations, recommendations_by_time, app_recommendations>>
weatherVars == <<response, weather_data>>
itinVars == <<num_days, itinerary, app_itinerary>>
trafficVars == <<traffic_responses>>
pageVars == <<destination, lat, lng, user_lat, user_lng,
              pit_stops, pit_stop_count, pit_stop_data, handler>>
chatVars == <<messages, gemini_chat>>
langVars == <<lang_code, translations, trip_option>>
seasonVars == <<current_month_num, seasonal>>
sessionVars == <<pageVars, chatVars, langVars, seasonVars>>

\* A result variable is empty until its operation is in done.
NoWeather == [condition |-> <<>>, temp |-> 0, quality |-> 0]

(***************************************************************************)
(* Bounds of the model.                                                    *)
(***************************************************************************)
MaxPlaces == 2        \* places per call, every rating/traffic combination
MaxWide == 6          \* places per call, three rating/traffic profiles
MaxRecs == 10         \* recommendations given to web.py generate_itinerary
MaxSmallRecs == 4     \* ... of which lists this long draw four travel times
MaxTags == 2          \* type tags of a place given to categorize_place
MaxTrafficPlaces == 3  \* places handed to the traffic lookup
MaxChat == 7          \* messages in the chat history
MaxDays == 5          \* num_days

(***************************************************************************)
(* Generic helpers.                                                        *)
(***************************************************************************)
Min(a, b) == IF a <= b THEN a ELSE b
Max(a, b) == IF a >= b THEN a ELSE b
Abs(a) == IF a < 0 THEN 0 - a ELSE a

RECURSIVE GCD(_, _)
GCD(a, b) == IF b = 0 THEN a ELSE GCD(b, a % b)

\* Exact fractions, normalised so that equal numbers are equal records.
Rat(n, d) ==
    LET g == GCD(Abs(n), d)
    IN  [num |-> n \div g, den |-> d \div g]
RatInt(n) == [num |-> n, den |-> 1]
RatAdd(a, b) == Rat(a.num * b.den + b.num * a.den, a.den * b.den)
RatSub(a, b) == Rat(a.num * b.den - b.num * a.den, a.den * b.den)
RatMul(a, b) == Rat(a.num * b.num, a.den * b.den)
RatNeg(a) == [num |-> 0 - a.num, den |-> a.den]
RatLess(a, b) == a.num * b.den < b.num * a.den
RatLeq(a, b) == a.num * b.den <= b.num * a.den

\* dict.get(key, default)
Get(d, k, default) == IF k \in DOMAIN d THEN d[k] ELSE default

\* max(list) of a non-empty set of integers
SetMax(S) == CHOOSE x \in S : \A y \in S : y <= x

SeqToSet(s) == {s[i] : i \in 1..Len(s)}

\* s[lo:hi] of Python, 0-based and clipped to the list
Slice(s, lo, hi) == SubSeq(s, Min(lo, Len(s)) + 1, Min(hi, Len(s)))

PlaceNames == <<"A", "B", "C", "D", "E", "F", "G", "H", "I", "J", "K", "L">>

(***************************************************************************)
(* recommend_places (src/web.py 887-925, src/app.py 175-211).              *)
(*                                                                         *)
(* A place is [name, rating, types]; rating is NA for the "N/A" sentinel   *)
(* of get_nearby_places_cached, else tenths of a star.  traffic_data maps  *)
(* a place name to [travel_time, traffic_level].  lat and lng are copied   *)
(* through by the code and left out.                                       *)
(***************************************************************************)
NA == -1

trip_type_weights == [Adventure |-> 12, Relaxation |-> 8, Cultural |-> 15]

trip_factor(trip_type) == Get(trip_type_weights, trip_type, 10)

\* mutant: the trip factor multiplies the crowd term for every trip type
CrowdFactor_Always(trip_type) == trip_factor(trip_type)

\* (trip_factor if trip_type == "Adventure" else 1.0)
CrowdFactor(trip_type) ==
    IF trip_type = "Adventure" THEN trip_factor(trip_type) ELSE 10

\* (trip_factor if trip_type == "Cultural" else 1.0)
AttractionsFactor(trip_type) ==
    IF trip_type = "Cultural" THEN trip_factor(trip_type) ELSE 10

\* max([data["travel_time"] for data in traffic_data.values()] + [1])
max_travel_time(traffic) ==
    SetMax({traffic[k].travel_time : k \in DOMAIN traffic} \cup {1})

\* traffic_data.get(place["name"], {}).get("travel_time", 15)
TravelTimeOf(traffic, name) ==
    IF name \in DOMAIN traffic THEN traffic[name].travel_time ELSE 15

\* mutant: an unrated place counts as rating 0
RatingOf_Zero(place) == IF place.rating # NA THEN place.rating ELSE 0

\* float(place["rating"]) if place["rating"] != "N/A" else 3.0
RatingOf(place) == IF place.rating # NA THEN place.rating ELSE 30

\* norm_travel = travel_time / max_travel_time
NormTravel(travel_time, max_time) == Rat(travel_time, max_time)

\* mutant: the rating is normalised over 10 stars
NormRating_OfTen(rating) == Rat(rating, 100)

\* norm_rating = rating / 5   (rating in tenths)
NormRating(rating) == Rat(rating, 50)

\* The score of one place, computed term by term as the code does.
Score(place, traffic, quality, prefs) ==
    LET weather_importance == Rat(Get(prefs, "weather_importance", 3), 10)
        crowd_importance == Rat(Get(prefs, "crowd_importance", 3), 10)
        attractions_importance == Rat(Get(prefs, "attractions_importance", 2), 10)
        trip_type == Get(prefs, "trip_type", "Adventure")
        travel_time == TravelTimeOf(traffic, place.name)
        norm_travel == NormTravel(travel_time, max_travel_time(traffic))
        norm_rating == NormRating(RatingOf(place))
        weather_term == RatMul(RatMul(weather_importance, RatInt(quality)), Rat(1, 10))
        crowd_term == RatMul(RatMul(crowd_importance, RatSub(RatInt(1), norm_travel)),
                             Rat(CrowdFactor(trip_type), 10))
        attractions_term == RatMul(RatMul(attractions_importance, norm_rating),
                                   Rat(AttractionsFactor(trip_type), 10))
    IN  RatMul(RatAdd(RatAdd(weather_term, crowd_term), attractions_term), RatInt(10))

\* The dict appended to scored_places by web.py.
ScoredPlace(place, traffic, quality, prefs) ==
    [Place |-> place.name,
     Travel_Time |-> TravelTimeOf(traffic, place.name),
     Rating |-> RatingOf(place),
     Score |-> Score(place, traffic, quality, prefs),
     types |-> place.types]

\* The dict appended to scored_places by app.py (no "types").
AppScoredPlace(place, traffic, quality, prefs) ==
    [Place |-> place.name,
     Travel_Time |-> TravelTimeOf(traffic, place.name),
     Rating |-> RatingOf(place),
     Score |-> Score(place, traffic, quality, prefs)]

(***************************************************************************)
(* sorted(): Python's sort is stable.  Before_k(a, b) is key(a) < key(b)   *)
(* for the key of each call site; an element is inserted behind every      *)
(* element whose key is not greater.                                       *)
(***************************************************************************)
\* mutant: ascending score
ScoreKeyBefore_Ascending(a, b) == RatLess(a.Score, b.Score)

\* key=lambda x: -x["Score"]                                (web.py 923)
ScoreKeyBefore(a, b) == RatLess(RatNeg(a.Score), RatNeg(b.Score))

\* mutant: travel time only, no tie-break by score
TimeScoreKeyBefore_NoTieBreak(a, b) == a.Travel_Time < b.Travel_Time

\* key=lambda x: (x["Travel Time"], -x["Score"])            (web.py 921)
TimeScoreKeyBefore(a, b) ==
    \/ a.Travel_Time < b.Travel_Time
    \/ /\ a.Travel_Time = b.Travel_Time
       /\ RatLess(RatNeg(a.Score), RatNeg(b.Score))

\* key=lambda x: x["Score"], reverse=True                   (app.py 211)
ScoreReverseBefore(a, b) == RatLess(b.Score, a.Score)

\* mutant: travel time descending
TravelKeyBefore_Descending(a, b) == b.Travel_Time < a.Travel_Time

\* key=lambda x: x["Travel Time"]                           (web.py 850)
TravelKeyBefore(a, b) == a.Travel_Time < b.Travel_Time

\* key=lambda x: x[1]["travel_time"] if isinstance(x[1], dict) else 15
\* (app.py 142; every value of places_data is a dict)
ItemTravelKeyBefore(a, b) == a[2].travel_time < b[2].travel_time

Before(kind, a, b) ==
    CASE kind = "score" -> ScoreKeyBefore(a, b)
      [] kind = "time_score" -> TimeScoreKeyBefore(a, b)
      [] kind = "score_reverse" -> ScoreReverseBefore(a, b)
      [] kind = "travel" -> TravelKeyBefore(a, b)
      [] kind = "item_travel" -> ItemTravelKeyBefore(a, b)

InsertSorted(kind, acc, x) ==
    LET later == {i \in 1..Len(acc) : Before(kind, x, acc[i])}
        pos == IF later = {} THEN Len(acc) + 1
               ELSE CHOOSE i \in later : \A j \in later : i <= j
    IN  SubSeq(acc, 1, pos - 1) \o <<x>> \o SubSeq(acc, pos, Len(acc))

RECURSIVE sorted(_, _)
sorted(kind, s) ==
    IF s = <<>> THEN <<>>
    ELSE InsertSorted(kind, sorted(kind, SubSeq(s, 1, Len(s) - 1)), s[Len(s)])

\* mutant: one scored entry per key of the traffic map
recommend_places_OverTraffic(ps, traffic, quality, prefs, sort_by_travel_time) ==
    LET keys == SelectSeq(PlaceNames, LAMBDA nm : nm \in DOMAIN traffic)
        scored_places ==
            [i \in 1..Len(keys) |->
               ScoredPlace([name |-> keys[i], rating |-> NA, types |-> <<>>],
                           traffic, quality, prefs)]
    IN  IF sort_by_travel_time
        THEN sorted("time_score", scored_places)
        ELSE sorted("score", scored_places)

\* web.py recommend_places
recommend_places(ps, traffic, quality, prefs, sort_by_travel_time) ==
    LET scored_places == [i \in 1..Len(ps) |-> ScoredPlace(ps[i], traffic, quality, prefs)]
    IN  IF sort_by_travel_time
        THEN sorted("time_score", scored_places)
        ELSE sorted("score", scored_places)

num_recommendations == 5

\* app.py recommend_places
app_recommend_places(ps, traffic, quality, prefs) ==
    LET scored_places == [i \in 1..Len(ps) |-> AppScoredPlace(ps[i], traffic, quality, prefs)]
    IN  Slice(sorted("score_reverse", scored_places), 0, num_recommendations)


(***************************************************************************)
(* Specification SpecRec: recommend_places applied to bounded inputs.      *)
(***************************************************************************)
Ratings == {NA, 30, 45}
TravelTimes == {10, 30}
WeatherQualities == {1, 8}
PrefWeights == {<<3, 3, 2>>, <<0, 0, 0>>, <<5, 0, 10>>}
TripTypes == {"Adventure", "Relaxation", "Cultural", "Family"}

\* The types of the i-th place returned by the places search.
PlaceTypes ==
    << <<"museum">>, <<"park">>, <<"tourist_attraction", "restaurant">>,
       <<>>, <<"point_of_interest", "park">>, <<"art_gallery">>,
       <<"zoo">>, <<"tourist_attraction", "cafe", "park">> >>
TypesOf(i) == PlaceTypes[((i - 1) % Len(PlaceTypes)) + 1]

IndexOf(name) == CHOOSE i \in 1..Len(PlaceNames) : PlaceNames[i] = name

\* get_traffic_data_for_places_cached: the entry stored for a travel time
TrafficEntry(tt) ==
    [travel_time |-> tt, traffic_level |-> Min(Max(tt \div 5, 1), 10)]

MakePlaces(n, r) ==
    [i \in 1..n |-> [name |-> PlaceNames[i], rating |-> r[i], types |-> TypesOf(i)]]

\* K: the indices of the places that have an entry, t: their travel times
MakeTraffic(K, t) ==
    [nm \in {PlaceNames[i] : i \in K} |-> TrafficEntry(t[IndexOf(nm)])]

MakePrefs(w, tt) ==
    [weather_importance |-> w[1], crowd_importance |-> w[2],
     attractions_importance |-> w[3], trip_type |-> tt]

\* user_preferences without any key: every .get() falls back to its default
EmptyPrefs == [k \in {} |-> 0]

\* The three kinds of place drawn for the longer lists.
WideProfiles ==
    {[rating |-> NA, has |-> FALSE, tt |-> 15],
     [rating |-> 45, has |-> TRUE, tt |-> 10],
     [rating |-> 30, has |-> TRUE, tt |-> 30]}

IdleRec ==
    /\ places = <<>> /\ traffic_data = EmptyPrefs
    /\ weather_quality = 5 /\ user_preferences = EmptyPrefs
    /\ recommendations = <<>> /\ recommendations_by_time = <<>>
    /\ app_recommendations = <<>>
IdleWeather == response = NoWeather /\ weather_data = NoWeather
IdleItin ==
    /\ num_days = 1
    /\ itinerary = <<>> /\ app_itinerary = <<>>
IdleTraffic == traffic_responses = <<>>

\* get_coordinates returns (None, None) on failure; `not lat` is also true of 0
None == 0

\* the assistant's first message (DEFAULT_GREETING)
Greeting == [role |-> "assistant", content |-> "DEFAULT_GREETING"]

\* the option labels of the English table
EnglishLabels == [adventure |-> "Adventure", relaxation |-> "Relaxation",
                  cultural |-> "Cultural"]

\* web.py 1159-1171: the session state of the planning page before any request
IdlePage ==
    /\ destination = "Bangalore"
    /\ lat = None /\ lng = None /\ user_lat = None /\ user_lng = None
    /\ pit_stops = <<"", "", "">>
    /\ pit_stop_count = 0
    /\ pit_stop_data = <<>>
    /\ handler = "none"
\* web.py 1870-1876
IdleChat == messages = <<Greeting>> /\ gemini_chat = <<>>
\* web.py 178-179
IdleLang == lang_code = "en" /\ translations = [en |-> EnglishLabels] /\ trip_option = 0
IdleSeason == current_month_num = 1 /\ seasonal = <<>>
IdleSession == IdlePage /\ IdleChat /\ IdleLang /\ IdleSeason

\* every combination of rating and traffic entry, up to MaxPlaces places
InitRecRich ==
    \E n \in 0..MaxPlaces :
      \E r \in [1..n -> Ratings], K \in SUBSET (1..n) :
        \E t \in [K -> TravelTimes] :
          /\ places = MakePlaces(n, r)
          /\ traffic_data = MakeTraffic(K, t)
          /\ weather_quality \in WeatherQualities
          /\ user_preferences \in
                {MakePrefs(w, tt) : w \in PrefWeights, tt \in TripTypes}
                \cup {EmptyPrefs}

\* longer lists (beyond num_recommendations), three kinds of place
InitRecWide ==
    \E n \in (MaxPlaces + 1)..MaxWide :
      \E f \in [1..n -> WideProfiles] :
        /\ places = MakePlaces(n, [i \in 1..n |-> f[i].rating])
        /\ traffic_data = MakeTraffic({i \in 1..n : f[i].has}, [i \in 1..n |-> f[i].tt])
        /\ weather_quality = 8
        /\ user_preferences \in {MakePrefs(<<3, 3, 2>>, tt) : tt \in TripTypes}

\* no places, with a traffic map that has entries
InitRecEmpty ==
    \E K \in SUBSET (1..MaxPlaces) :
      \E t \in [K -> TravelTimes] :
        /\ K # {}
        /\ places = <<>>
        /\ traffic_data = MakeTraffic(K, t)
        /\ weather_quality \in WeatherQualities
        /\ user_preferences \in
              {MakePrefs(w, tt) : w \in PrefWeights, tt \in TripTypes}
              \cup {EmptyPrefs}

InitRec ==
    /\ InitRecRich \/ InitRecWide \/ InitRecEmpty
    /\ recommendations = <<>>
    /\ recommendations_by_time = <<>>
    /\ app_recommendations = <<>>
    /\ IdleWeather
    /\ IdleItin
    /\ IdleTraffic
    /\ IdleSession
    /\ done = {}

\* web.py: recommend_places(places, traffic_data, quality, user_preferences[, True])
RecommendPlacesWeb ==
    /\ "app" \notin done              \* web.py and app.py are two programs
    /\ \E sort_by_travel_time \in BOOLEAN :
         IF sort_by_travel_time
         THEN /\ recommendations_by_time' =
                   recommend_places(places, traffic_data, weather_quality,
                                    user_preferences, TRUE)
              /\ done' = done \cup {"web_time"}
              /\ UNCHANGED recommendations
         ELSE /\ recommendations' =
                   recommend_places(places, traffic_data, weather_quality,
                                    user_preferences, FALSE)
              /\ done' = done \cup {"web"}
              /\ UNCHANGED recommendations_by_time
    /\ UNCHANGED <<places, traffic_data, weather_quality, user_preferences,
                   app_recommendations, weatherVars, itinVars, trafficVars, sessionVars>>

\* app.py: recommend_places(places, traffic_data, quality, user_preferences)
RecommendPlacesApp ==
    /\ done \cap {"web", "web_time"} = {}
    /\ done' = done \cup {"app"}
    /\ app_recommendations' =
          app_recommend_places(places, traffic_data, weather_quality, user_preferences)
    /\ UNCHANGED <<places, traffic_data, weather_quality, user_preferences,
                   recommendations, recommendations_by_time, weatherVars, itinVars, trafficVars, sessionVars>>

NextRec == RecommendPlacesWeb \/ RecommendPlacesApp

SpecRec == InitRec /\ [][NextRec]_vars


(***************************************************************************)
(* Properties of recommend_places, checked under SpecRec.                  *)
(***************************************************************************)
\* the results that have been computed in this state
RecResults ==
    (IF "web" \in done THEN {recommendations} ELSE {})
    \cup (IF "web_time" \in done THEN {recommendations_by_time} ELSE {})
    \cup (IF "app" \in done THEN {app_recommendations} ELSE {})

\* the input place an entry was scored from (names are unique in places)
PlaceOf(e) == places[CHOOSE i \in 1..Len(places) : places[i].name = e.Place]

\* the preferences in force: the given value, else the default of .get()
PrefWeatherImportance ==
    IF "weather_importance" \in DOMAIN user_preferences
    THEN user_preferences.weather_importance ELSE 3
PrefCrowdImportance ==
    IF "crowd_importance" \in DOMAIN user_preferences
    THEN user_preferences.crowd_importance ELSE 3
PrefAttractionsImportance ==
    IF "attractions_importance" \in DOMAIN user_preferences
    THEN user_preferences.attractions_importance ELSE 2
PrefTripType ==
    IF "trip_type" \in DOMAIN user_preferences
    THEN user_preferences.trip_type ELSE "Adventure"

\* the divisor of the crowd term: the largest travel time of the map, at least 1
MaxTravel ==
    CHOOSE m \in {traffic_data[k].travel_time : k \in DOMAIN traffic_data} \cup {1} :
        /\ m >= 1
        /\ \A k \in DOMAIN traffic_data : traffic_data[k].travel_time <= m

DescendingByScore(r) ==
    /\ \A i \in 1..(Len(r) - 1) : RatLeq(r[i + 1].Score, r[i].Score)
    /\ (\A i, j \in 1..Len(r) : i # j => r[i].Score # r[j].Score)
         => \A i \in 1..(Len(r) - 1) : RatLess(r[i + 1].Score, r[i].Score)

\* C1: in default mode the result of recommend_places is ordered by score,
\* highest first (strictly when the scores are pairwise distinct); web.py
\* returns every place, app.py the first num_recommendations of that order.
Thm_C1_ScoreDescending ==
    /\ "web" \in done =>
         /\ DescendingByScore(recommendations)
         /\ Len(recommendations) = Len(places)
    /\ "app" \in done =>
         /\ DescendingByScore(app_recommendations)
         /\ Len(app_recommendations) = Min(Len(places), 5)

\* a default-mode call that had to reorder two places of distinct score
Wit_C1_Reordered ==
    /\ "web" \in done
    /\ Len(recommendations) >= 2
    /\ recommendations[1].Place # places[1].name
    /\ \A i \in 1..(Len(recommendations) - 1) :
         RatLess(recommendations[i + 1].Score, recommendations[i].Score)

\* score = 10 * (wi*wq/10 + ci*(1 - tt/M)*cf + ai*(rating/5)*af), multiplied
\* out over the common denominator 500*M (weights, rating, factors in tenths)
FormulaHolds(e) ==
    LET cf == IF PrefTripType = "Adventure" THEN 12 ELSE 10
        af == IF PrefTripType = "Cultural" THEN 15 ELSE 10
    IN  e.Score.num * 500 * MaxTravel =
          e.Score.den *
            ( 50 * MaxTravel * PrefWeatherImportance * weather_quality
            + 50 * PrefCrowdImportance * (MaxTravel - e.Travel_Time) * cf
            + MaxTravel * PrefAttractionsImportance * e.Rating * af )

\* the scenario of the specification: A (4.5, 10 min), B (3.0, 30 min)
Scenario ==
    /\ Len(places) = 2
    /\ places[1].name = "A" /\ places[1].rating = 45
    /\ places[2].name = "B" /\ places[2].rating = 30
    /\ DOMAIN traffic_data = {"A", "B"}
    /\ traffic_data["A"].travel_time = 10
    /\ traffic_data["B"].travel_time = 30
    /\ weather_quality = 8
    /\ user_preferences = MakePrefs(<<3, 3, 2>>, "Adventure")

\* C2: every score equals the formula in exact arithmetic; in the scenario
\* A scores 6.6 and is ranked before B, which scores 3.6.
Thm_C2_ScoreFormula ==
    /\ \A r \in RecResults : \A i \in 1..Len(r) : FormulaHolds(r[i])
    /\ (Scenario /\ "web" \in done) =>
         /\ recommendations[1].Place = "A"
         /\ recommendations[1].Score.num * 10 = 66 * recommendations[1].Score.den
         /\ recommendations[2].Place = "B"
         /\ recommendations[2].Score.num * 10 = 36 * recommendations[2].Score.den

Wit_C2_Scenario ==
    /\ Scenario
    /\ "web" \in done
    /\ recommendations[1].Score = [num |-> 33, den |-> 5]

\* the same preferences with a trip type that is not in the table
NeutralPrefs ==
    MakePrefs(<<PrefWeatherImportance, PrefCrowdImportance, PrefAttractionsImportance>>,
              "Unlisted")

\* C3: against the score under an unlisted trip type, Adventure adds 0.2 of
\* the crowd term and nothing else, Cultural adds 0.5 of the attractions
\* term and nothing else, Relaxation and every other value add nothing.
Thm_C3_AsymmetricMultiplier ==
    \A r \in RecResults : \A i \in 1..Len(r) :
      LET e == r[i]
          neutral == Score(PlaceOf(e), traffic_data, weather_quality, NeutralPrefs)
          gain == RatSub(e.Score, neutral)
      IN  CASE PrefTripType = "Adventure" ->
                 gain = Rat(2 * PrefCrowdImportance * (MaxTravel - e.Travel_Time),
                            10 * MaxTravel)
            [] PrefTripType = "Cultural" ->
                 gain = Rat(PrefAttractionsImportance * e.Rating, 100)
            [] OTHER -> gain = RatInt(0)

\* a Relaxation call whose crowd and attractions terms are both non-zero
Wit_C3_Relaxation ==
    /\ "web" \in done
    /\ PrefTripType = "Relaxation"
    /\ PrefCrowdImportance > 0 /\ PrefAttractionsImportance > 0
    /\ \E i \in 1..Len(recommendations) :
         recommendations[i].Travel_Time < MaxTravel

\* an entry carries the defaults for the data its place lacks
DefaultsUsed(e) ==
    /\ PlaceOf(e).rating = NA => e.Rating = 30
    /\ e.Place \notin DOMAIN traffic_data => e.Travel_Time = 15

LacksData(p) == p.rating = NA \/ p.name \notin DOMAIN traffic_data

\* C4 as stated: every place that lacks data appears in the result.
Orig_C4_AlwaysInResult ==
    \A r \in RecResults : \A j \in 1..Len(places) :
      LacksData(places[j]) =>
        \E i \in 1..Len(r) : r[i].Place = places[j].name /\ DefaultsUsed(r[i])

\* C4 (amended): an unrated place is scored with rating 3.0 and a place
\* without traffic entry with 15 minutes; web.py returns every such place,
\* app.py returns it unless it is cut by the limit of num_recommendations
\* places, in which case no returned place scores lower than it.
Thm_C4_DefaultsForMissingData ==
    /\ \A r \in RecResults : \A i \in 1..Len(r) : DefaultsUsed(r[i])
    /\ \A r \in RecResults \ {app_recommendations} : \A j \in 1..Len(places) :
         \E i \in 1..Len(r) : r[i].Place = places[j].name
    /\ "app" \in done =>
         \A j \in 1..Len(places) :
           \/ \E i \in 1..Len(app_recommendations) :
                app_recommendations[i].Place = places[j].name
           \/ /\ Len(app_recommendations) = 5
              /\ \A i \in 1..5 :
                   RatLeq(Score(places[j], traffic_data, weather_quality,
                                user_preferences),
                          app_recommendations[i].Score)

\* a web.py result holding a place with neither rating nor traffic entry
Wit_C4_BothMissing ==
    /\ "web" \in done
    /\ \E i \in 1..Len(recommendations) :
         /\ PlaceOf(recommendations[i]).rating = NA
         /\ recommendations[i].Place \notin DOMAIN traffic_data
         /\ recommendations[i].Rating = 30
         /\ recommendations[i].Travel_Time = 15

\* C5: with sort_by_travel_time the result is ordered by travel time
\* ascending, equal travel times by score descending, and holds the same
\* scored places as the default-mode result.
Thm_C5_TravelTimeOrder ==
    "web_time" \in done =>
      /\ \A i \in 1..(Len(recommendations_by_time) - 1) :
           LET a == recommendations_by_time[i]
               b == recommendations_by_time[i + 1]
           IN  /\ a.Travel_Time <= b.Travel_Time
               /\ a.Travel_Time = b.Travel_Time => RatLeq(b.Score, a.Score)
      /\ Len(recommendations_by_time) = Len(places)
      /\ "web" \in done =>
           /\ Len(recommendations_by_time) = Len(recommendations)
           /\ SeqToSet(recommendations_by_time) = SeqToSet(recommendations)

\* both modes computed; two places of equal travel time and distinct score
\* were put in score order, against the order of the input
Wit_C5_TieBrokenByScore ==
    /\ {"web", "web_time"} \subseteq done
    /\ \E i \in 1..(Len(recommendations_by_time) - 1) :
         /\ recommendations_by_time[i].Travel_Time
              = recommendations_by_time[i + 1].Travel_Time
         /\ RatLess(recommendations_by_time[i + 1].Score,
                    recommendations_by_time[i].Score)
         /\ recommendations_by_time[i].Place # places[1].name


(***************************************************************************)
(* get_weather_data_cached (src/web.py 773-792, src/app.py 93-112).        *)
(*                                                                         *)
(* response is what requests.get() produced: raises (the request, the JSON *)
(* decoding or the reading of a field throws), status_code, whether "main" *)
(* and "weather" are keys of the body, the description and the             *)
(* temperature (tenths of a degree Celsius).                               *)
(***************************************************************************)
W_clear == <<"c", "l", "e", "a", "r">>
W_sunny == <<"s", "u", "n", "n", "y">>
W_cloud == <<"c", "l", "o", "u", "d">>
W_rain == <<"r", "a", "i", "n">>
W_few_clouds == <<"f", "e", "w", " ", "c", "l", "o", "u", "d", "s">>
W_unknown == <<"u", "n", "k", "n", "o", "w", "n">>
W_error == <<"e", "r", "r", "o", "r">>

\* Python: sub in s
Contains(sub, s) ==
    \E i \in 1..(Len(s) - Len(sub) + 1) : SubSeq(s, i, i + Len(sub) - 1) = sub

\* mutant: rain is tested before cloud
BaseQuality_RainFirst(condition) ==
    IF Contains(W_clear, condition) \/ Contains(W_sunny, condition) THEN 9
    ELSE IF Contains(W_rain, condition) THEN 4
    ELSE IF Contains(W_cloud, condition) THEN 7
    ELSE 6

\* quality = 9 if "clear" in condition or "sunny" in condition else (
\*     7 if "cloud" in condition else 4 if "rain" in condition else 6)
BaseQuality(condition) ==
    IF Contains(W_clear, condition) \/ Contains(W_sunny, condition) THEN 9
    ELSE IF Contains(W_cloud, condition) THEN 7
    ELSE IF Contains(W_rain, condition) THEN 4
    ELSE 6

\* 1 if 20 <= temp <= 30 else -2 if temp < 5 or temp > 40 else 0
TempAdjust(temp) ==
    IF 200 <= temp /\ temp <= 300 THEN 1
    ELSE IF temp < 50 \/ temp > 400 THEN 0 - 2
    ELSE 0

\* mutant: the status code is not looked at
get_weather_data_cached_AnyStatus(resp) ==
    IF resp.raises
    THEN [condition |-> W_error, temp |-> 250, quality |-> 5]
    ELSE IF resp.has_main /\ resp.has_weather
         THEN LET temp == resp.temp
                  condition == resp.condition
                  quality == BaseQuality(condition) + TempAdjust(temp)
              IN  [condition |-> condition, temp |-> temp,
                   quality |-> Max(1, Min(10, quality))]
         ELSE [condition |-> W_unknown, temp |-> 250, quality |-> 5]

get_weather_data_cached(resp) ==
    IF resp.raises
    THEN [condition |-> W_error, temp |-> 250, quality |-> 5]
    ELSE IF resp.status_code = 200 /\ resp.has_main /\ resp.has_weather
         THEN LET temp == resp.temp
                  condition == resp.condition
                  quality == BaseQuality(condition) + TempAdjust(temp)
              IN  [condition |-> condition, temp |-> temp,
                   quality |-> Max(1, Min(10, quality))]
         ELSE [condition |-> W_unknown, temp |-> 250, quality |-> 5]

(***************************************************************************)
(* Specification SpecWeather: the weather fetch applied to bounded         *)
(* responses.                                                              *)
(***************************************************************************)
Conditions ==
    {<<"c", "l", "e", "a", "r", " ", "s", "k", "y">>,
     <<"f", "e", "w", " ", "c", "l", "o", "u", "d", "s">>,
     <<"s", "c", "a", "t", "t", "e", "r", "e", "d", " ", "c", "l", "o", "u", "d", "s">>,
     <<"o", "v", "e", "r", "c", "a", "s", "t", " ", "c", "l", "o", "u", "d", "s">>,
     <<"l", "i", "g", "h", "t", " ", "r", "a", "i", "n">>,
     <<"m", "i", "s", "t">>,
     <<"s", "u", "n", "n", "y">>,
     <<"h", "a", "z", "e">>,
     <<"s", "u", "n", "n", "y", " ", "i", "n", "t", "e", "r", "v", "a", "l", "s", " ", "t", "h", "e", "n", " ", "r", "a", "i", "n">>,
     <<"r", "a", "i", "n", " ", "c", "l", "o", "u", "d", "s">>}
Temps == {-50, 20, 49, 50, 199, 200, 250, 300, 301, 400, 401, 450}
StatusCodes == {200, 404}

InitWeather ==
    /\ response \in [raises : BOOLEAN, status_code : StatusCodes,
                     has_main : BOOLEAN, has_weather : BOOLEAN,
                     condition : Conditions, temp : Temps]
    /\ weather_data = NoWeather
    /\ IdleRec
    /\ IdleItin
    /\ IdleTraffic
    /\ IdleSession
    /\ done = {}

\* web.py: weather_data = get_weather_data_cached(destination)
GetWeatherDataWeb ==
    /\ "app_weather" \notin done
    /\ weather_data' = get_weather_data_cached(response)
    /\ done' = done \cup {"weather"}
    /\ UNCHANGED <<response, recVars, itinVars, trafficVars, sessionVars>>

\* app.py: st.session_state.weather_data = get_weather_data_cached(destination)
GetWeatherDataApp ==
    /\ "weather" \notin done
    /\ weather_data' = get_weather_data_cached(response)
    /\ done' = done \cup {"app_weather"}
    /\ UNCHANGED <<response, recVars, itinVars, trafficVars, sessionVars>>

NextWeather == GetWeatherDataWeb \/ GetWeatherDataApp

SpecWeather == InitWeather /\ [][NextWeather]_vars

Fetched == done \cap {"weather", "app_weather"} # {}
Successful == ~response.raises /\ response.status_code = 200
              /\ response.has_main /\ response.has_weather

\* C6: on a successful response the quality is the base of the first
\* matching word (clear/sunny 9, cloud 7, rain 4, else 6), plus 1 for
\* 20..30 degrees, minus 2 below 5 or above 40, clamped to 1..10; it is an
\* integer in 1..10, "clear" at 25 degrees gives 10, "rain" at 2 gives 2.
Thm_C6_WeatherQuality ==
    (Fetched /\ Successful) =>
      LET c == response.condition
          t == response.temp
          q == weather_data.quality
          base == CASE Contains(W_clear, c) \/ Contains(W_sunny, c) -> 9
                    [] ~(Contains(W_clear, c) \/ Contains(W_sunny, c))
                       /\ Contains(W_cloud, c) -> 7
                    [] ~(Contains(W_clear, c) \/ Contains(W_sunny, c))
                       /\ ~Contains(W_cloud, c) /\ Contains(W_rain, c) -> 4
                    [] OTHER -> 6
          adj == CASE t >= 200 /\ t <= 300 -> 1
                   [] t < 50 \/ t > 400 -> 0 - 2
                   [] OTHER -> 0
      IN  /\ q \in 1..10
          /\ (base + adj > 10) => q = 10
          /\ (base + adj < 1) => q = 1
          /\ (base + adj \in 1..10) => q = base + adj
          /\ (Contains(W_clear, c) /\ t = 250) => q = 10
          /\ (c = <<"l", "i", "g", "h", "t", " ", "r", "a", "i", "n">> /\ t = 20) => q = 2
          /\ weather_data.condition = c /\ weather_data.temp = t

\* a description naming both cloud and rain, outside every temperature band
Wit_C6_CloudBeforeRain ==
    /\ Fetched /\ Successful
    /\ Contains(W_cloud, response.condition)
    /\ Contains(W_rain, response.condition)
    /\ response.temp = 199
    /\ weather_data.quality = 7


(***************************************************************************)
(* generate_itinerary of web.py (848-884) with categorize_place (827-845). *)
(*                                                                         *)
(* f"Day {day + 1}" is the pair <<"Day", day + 1>>, f"{travel_time} mins"  *)
(* the pair <<travel_time, "mins">>, the traffic symbol is named by its    *)
(* colour.  lat and lng are copied through and left out.                   *)
(***************************************************************************)
place_type_categories ==
    [park |-> "outdoor", museum |-> "indoor", art_gallery |-> "indoor",
     restaurant |-> "dining", cafe |-> "dining", bar |-> "dining",
     amusement_park |-> "outdoor", zoo |-> "outdoor", shopping_mall |-> "indoor",
     point_of_interest |-> "mixed", establishment |-> "mixed"]

\* mutant: the last matching tag wins
categorize_place_LastMatch(types) ==
    LET hits == {i \in 1..Len(types) : types[i] \in DOMAIN place_type_categories}
    IN  IF hits = {} THEN "mixed"
        ELSE place_type_categories[types[CHOOSE i \in hits : \A j \in hits : j <= i]]

categorize_place(types) ==
    LET hits == {i \in 1..Len(types) : types[i] \in DOMAIN place_type_categories}
    IN  IF hits = {} THEN "mixed"
        ELSE place_type_categories[types[CHOOSE i \in hits : \A j \in hits : i <= j]]

\* str.capitalize() on the four categories
Capitalize(category) ==
    CASE category = "outdoor" -> "Outdoor"
      [] category = "indoor" -> "Indoor"
      [] category = "dining" -> "Dining"
      [] category = "mixed" -> "Mixed"

\* mutant: any description naming clouds counts as outdoor-friendly
OutdoorFriendly_AnyCloud(condition) ==
    \/ Contains(W_clear, condition)
    \/ Contains(W_sunny, condition)
    \/ Contains(W_cloud, condition)

\* "clear" in c or "sunny" in c or "few clouds" in c
OutdoorFriendly(condition) ==
    \/ Contains(W_clear, condition)
    \/ Contains(W_sunny, condition)
    \/ Contains(W_few_clouds, condition)

\* green if travel_time < 20, yellow if travel_time < 30, else red
TrafficSymbol(travel_time) ==
    IF travel_time < 20 THEN "green"
    ELSE IF travel_time < 30 THEN "yellow" ELSE "red"

\* mutant: the weather is not consulted for outdoor places
BestTime_AnyWeather(category, outdoor_friendly, start_idx) ==
    IF category = "outdoor"
    THEN (IF start_idx % 3 = 0 THEN "Morning"
          ELSE IF start_idx % 3 = 1 THEN "Afternoon" ELSE "Evening")
    ELSE IF category = "indoor" THEN "Anytime"
    ELSE IF category = "dining"
    THEN (IF start_idx % 2 = 0 THEN "Lunch" ELSE "Dinner")
    ELSE "Afternoon"

BestTime(category, outdoor_friendly, start_idx) ==
    IF category = "outdoor" /\ outdoor_friendly
    THEN (IF start_idx % 3 = 0 THEN "Morning"
          ELSE IF start_idx % 3 = 1 THEN "Afternoon" ELSE "Evening")
    ELSE IF category = "indoor" THEN "Anytime"
    ELSE IF category = "dining"
    THEN (IF start_idx % 2 = 0 THEN "Lunch" ELSE "Dinner")
    ELSE "Afternoon"

\* mutant: days are numbered from 0
DayLabel_FromZero(day) == <<"Day", day>>

\* f"Day {day + 1}"
DayLabel(day) == <<"Day", day + 1>>

\* mutant: each day starts three places after the previous one
DayPlaces_StepThree(sorted_recs, day) == Slice(sorted_recs, day * 3, day * 3 + 4)

\* mutant: a slice of five places, overlapping the next day's
DayPlaces_FiveWide(sorted_recs, day) == Slice(sorted_recs, day * 4, day * 4 + 5)

\* start_idx = day * 4; end_idx = start_idx + 4; sorted_recs[start_idx:end_idx]
DayPlaces(sorted_recs, day) == Slice(sorted_recs, day * 4, day * 4 + 4)

\* the dict appended for one place of a day
ItineraryEntry(place, day, outdoor_friendly) ==
    LET category == categorize_place(place.types)
        travel_time == place.Travel_Time
    IN  [Day |-> DayLabel(day),
         Place |-> place.Place,
         Category |-> Capitalize(category),
         Travel_Time |-> <<travel_time, "mins">>,
         Traffic |-> TrafficSymbol(travel_time),
         Best_Time |-> BestTime(category, outdoor_friendly, day * 4),
         Rating |-> place.Rating]

\* the loop `for day in range(num_days)` from day on, with its break
RECURSIVE ItineraryFrom(_, _, _, _)
ItineraryFrom(day, sorted_recs, outdoor_friendly, days) ==
    IF day >= days THEN <<>>
    ELSE LET day_places == DayPlaces(sorted_recs, day)
         IN  IF day_places = <<>> THEN <<>>
             ELSE [i \in 1..Len(day_places) |->
                      ItineraryEntry(day_places[i], day, outdoor_friendly)]
                  \o ItineraryFrom(day + 1, sorted_recs, outdoor_friendly, days)

\* mutant: a relaxation trip visits the farthest places first
generate_itinerary_ByPreference(recs, weather, prefs, days) ==
    LET by_time == sorted("travel", recs)
        sorted_recs == IF Get(prefs, "trip_type", "Adventure") = "Relaxation"
                       THEN [i \in 1..Len(by_time) |-> by_time[Len(by_time) + 1 - i]]
                       ELSE by_time
        outdoor_friendly == OutdoorFriendly(weather.condition)
    IN  ItineraryFrom(0, sorted_recs, outdoor_friendly, days)

\* mutant: the recommendations are sliced in the order they arrive in
generate_itinerary_Unsorted(recs, weather, prefs, days) ==
    ItineraryFrom(0, recs, OutdoorFriendly(weather.condition), days)

\* mutant: without places every day gets a free-day entry
generate_itinerary_FreeDays(recs, weather, prefs, days) ==
    LET sorted_recs == sorted("travel", recs)
        outdoor_friendly == OutdoorFriendly(weather.condition)
    IN  IF recs = <<>>
        THEN [d \in 1..days |-> [Day |-> DayLabel(d - 1), Place |-> "Free day"]]
        ELSE ItineraryFrom(0, sorted_recs, outdoor_friendly, days)

generate_itinerary(recs, weather, prefs, days) ==
    LET sorted_recs == sorted("travel", recs)
        outdoor_friendly == OutdoorFriendly(weather.condition)
    IN  ItineraryFrom(0, sorted_recs, outdoor_friendly, days)


(***************************************************************************)
(* generate_itinerary of app.py (140-172).  places_data is the traffic     *)
(* dict; a dict iterates in insertion order, which is the order in which   *)
(* get_traffic_data_for_places_cached went through the places.             *)
(***************************************************************************)
\* places_data.items(), keys in the order of their first insertion
DictItems(d, order) ==
    LET keys == SelectSeq(order, LAMBDA k : k \in DOMAIN d)
    IN  [i \in 1..Len(keys) |-> <<keys[i], d[keys[i]]>>]

\* {place["name"]: place["rating"] for place in nearby_places}   (app.py 306)
PlaceRatings(ps) ==
    [nm \in {ps[i].name : i \in 1..Len(ps)} |->
        ps[CHOOSE i \in 1..Len(ps) :
             ps[i].name = nm /\ \A j \in (i + 1)..Len(ps) : ps[j].name # nm].rating]

\* mutant: the quotient is rounded up
PlacesPerDay_RoundedUp(n, days) == Max(1, (n + days - 1) \div days)

\* places_per_day = max(1, len(sorted_places) // num_days)
PlacesPerDay(n, days) == Max(1, n \div days)

AppTimeOfDay(travel_time, outdoor_friendly) ==
    IF travel_time < 25 /\ outdoor_friendly THEN "Morning"
    ELSE IF travel_time < 40 THEN "Afternoon" ELSE "Evening"

\* mutant: 25 minutes still counts as near
AppPlaceType_Inclusive(travel_time, outdoor_friendly) ==
    IF outdoor_friendly /\ travel_time <= 25 THEN "outdoor"
    ELSE IF travel_time < 40 THEN "mixed" ELSE "indoor or dining"

AppPlaceType(travel_time, outdoor_friendly) ==
    IF outdoor_friendly /\ travel_time < 25 THEN "outdoor"
    ELSE IF travel_time < 40 THEN "mixed" ELSE "indoor or dining"

AppItineraryEntry(item, day, outdoor_friendly, place_ratings) ==
    LET place == item[1]
        travel_time == item[2].travel_time
    IN  [Day |-> DayLabel(day),
         Place |-> place,
         Travel_Time |-> <<travel_time, "mins">>,
         Traffic |-> TrafficSymbol(travel_time),
         Best_Time |-> AppTimeOfDay(travel_time, outdoor_friendly),
         Type |-> AppPlaceType(travel_time, outdoor_friendly),
         Rating |-> Get(place_ratings, place, NA)]

\* the loop `for day in range(num_days)` from day on (no break)
RECURSIVE AppItineraryFrom(_, _, _, _, _, _)
AppItineraryFrom(day, sorted_places, places_per_day, outdoor_friendly, place_ratings, days) ==
    IF day >= days THEN <<>>
    ELSE LET day_places == Slice(sorted_places, day * places_per_day,
                                 (day + 1) * places_per_day)
         IN  [i \in 1..Len(day_places) |->
                 AppItineraryEntry(day_places[i], day, outdoor_friendly, place_ratings)]
             \o AppItineraryFrom(day + 1, sorted_places, places_per_day,
                                 outdoor_friendly, place_ratings, days)

app_generate_itinerary(items, weather, place_ratings, days) ==
    LET sorted_places == sorted("item_travel", items)
        weather_condition == Get(weather, "condition", W_unknown)
        outdoor_friendly == OutdoorFriendly(weather_condition)
        places_per_day == PlacesPerDay(Len(sorted_places), days)
    IN  AppItineraryFrom(0, sorted_places, places_per_day, outdoor_friendly,
                         place_ratings, days)

(***************************************************************************)
(* Specification SpecItin: both itinerary builders applied to the state    *)
(* left by a planning request: n places with their traffic entries, the    *)
(* scored places in score order, the weather, and a number of days.        *)
(***************************************************************************)
SmallTravelTimes == {10, 20, 30, 45}
\* for the shortest lists: the values around the thresholds 25 and 40 of app.py
ThresholdTravelTimes == {10, 24, 25, 39, 40, 45}
LargeTravelTimes == {10, 30}
ClearSky == <<"c", "l", "e", "a", "r", " ", "s", "k", "y">>
ItinConditions ==
    {ClearSky,
     <<"s", "c", "a", "t", "t", "e", "r", "e", "d", " ", "c", "l", "o", "u", "d", "s">>}
\* the further descriptions drawn for the short lists
MoreItinConditions ==
    {<<"f", "e", "w", " ", "c", "l", "o", "u", "d", "s">>,
     <<"s", "u", "n", "n", "y">>,
     <<"l", "i", "g", "h", "t", " ", "r", "a", "i", "n">>}
ItinRatings == <<45, NA, 30, 40>>
ItinRating(i) == ItinRatings[((i - 1) % Len(ItinRatings)) + 1]

\* the preference sets of a planning request with and without the form filled
ItinPrefs == {EmptyPrefs, MakePrefs(<<5, 0, 10>>, "Relaxation")}

InitItin ==
    /\ \E n \in 0..MaxRecs :
         \E t \in [1..n -> IF n <= MaxPlaces THEN ThresholdTravelTimes
                           ELSE IF n <= MaxSmallRecs THEN SmallTravelTimes
                           ELSE LargeTravelTimes] :
           /\ places = MakePlaces(n, [i \in 1..n |-> ItinRating(i)])
           /\ traffic_data = MakeTraffic(1..n, t)
           /\ recommendations =
                 [i \in 1..n |->
                    [Place |-> PlaceNames[i], Travel_Time |-> t[i],
                     Rating |-> IF ItinRating(i) = NA THEN 30 ELSE ItinRating(i),
                     Score |-> RatInt(n - i), types |-> TypesOf(i)]]
    /\ \E c \in ItinConditions \cup MoreItinConditions, failure \in {"none", "status", "raises"} :
         /\ Len(places) > MaxSmallRecs => (c \in ItinConditions /\ failure = "none")
         /\ failure # "none" => c = ClearSky
         /\ response = [raises |-> failure = "raises",
                        status_code |-> IF failure = "status" THEN 404 ELSE 200,
                        has_main |-> TRUE, has_weather |-> TRUE,
                        condition |-> c, temp |-> 250]
         /\ weather_data = get_weather_data_cached(response)
    /\ num_days \in 1..MaxDays
    /\ weather_quality = weather_data.quality
    /\ user_preferences \in ItinPrefs
    /\ recommendations_by_time = <<>>
    /\ app_recommendations = <<>>
    /\ itinerary = <<>>
    /\ app_itinerary = <<>>
    /\ IdleTraffic
    /\ IdleSession
    /\ done = {}

\* web.py 1424: generate_itinerary(recommendations[:20], weather_data,
\*                                 user_preferences, num_days)
GenerateItineraryWeb ==
    /\ "app_itinerary" \notin done
    /\ itinerary' = generate_itinerary(Slice(recommendations, 0, 20), weather_data,
                                       user_preferences, num_days)
    /\ done' = done \cup {"itinerary"}
    /\ UNCHANGED <<recVars, weatherVars, num_days, app_itinerary, trafficVars, sessionVars>>

\* app.py 305-314: generate_itinerary(destination, traffic_data, now,
\*                                    weather_data, place_ratings, num_days)
GenerateItineraryApp ==
    /\ "itinerary" \notin done
    /\ app_itinerary' =
          app_generate_itinerary(
              DictItems(traffic_data, [i \in 1..Len(places) |-> places[i].name]),
              weather_data, PlaceRatings(places), num_days)
    /\ done' = done \cup {"app_itinerary"}
    /\ UNCHANGED <<recVars, weatherVars, num_days, itinerary, trafficVars, sessionVars>>

NextItin == GenerateItineraryWeb \/ GenerateItineraryApp

SpecItin == InitItin /\ [][NextItin]_vars


(***************************************************************************)
(* Properties of the itinerary builders, checked under SpecItin.           *)
(***************************************************************************)
\* the list web.py hands to generate_itinerary
ItinInput == SubSeq(recommendations, 1, Min(Len(recommendations), 20))

\* position of the i-th input place in the travel-time-ascending ordering
\* (places of equal travel time keep their input order)
RankByTravel(i) ==
    1 + Cardinality({j \in 1..Len(ItinInput) :
                       \/ ItinInput[j].Travel_Time < ItinInput[i].Travel_Time
                       \/ /\ ItinInput[j].Travel_Time = ItinInput[i].Travel_Time
                          /\ j < i})

DayOf(e) == e.Day[2]
EntriesOfDay(it, d) == SelectSeq(it, LAMBDA e : e.Day = <<"Day", d>>)
MinutesOf(e) == e.Travel_Time[1]

\* C7: day d holds exactly the places at positions 4(d-1) .. 4d-1 of the
\* travel-time-ascending ordering, in that order; 10 places and 3 days give
\* day groups of 4, 4 and 2 places, each ascending in travel time.
Thm_C7_FixedSizeDays ==
    "itinerary" \in done =>
      /\ \A i \in 1..Len(ItinInput) :
           LET k == RankByTravel(i)
           IN  k <= 4 * num_days =>
                 /\ k <= Len(itinerary)
                 /\ itinerary[k].Place = ItinInput[i].Place
                 /\ MinutesOf(itinerary[k]) = ItinInput[i].Travel_Time
                 /\ DayOf(itinerary[k]) = ((k - 1) \div 4) + 1
      /\ Len(itinerary) = Min(Len(ItinInput), 4 * num_days)
      /\ (Len(ItinInput) = 10 /\ num_days = 3) =>
           /\ {DayOf(itinerary[k]) : k \in 1..Len(itinerary)} = {1, 2, 3}
           /\ Len(EntriesOfDay(itinerary, 1)) = 4
           /\ Len(EntriesOfDay(itinerary, 2)) = 4
           /\ Len(EntriesOfDay(itinerary, 3)) = 2
           /\ \A d \in 1..3 :
                LET es == EntriesOfDay(itinerary, d)
                IN  \A k \in 1..(Len(es) - 1) : MinutesOf(es[k]) <= MinutesOf(es[k + 1])

\* ten places that were not in travel-time order, three days
Wit_C7_TenPlacesThreeDays ==
    /\ "itinerary" \in done
    /\ Len(ItinInput) = 10 /\ num_days = 3
    /\ ItinInput[1].Travel_Time > ItinInput[10].Travel_Time
    /\ Len(EntriesOfDay(itinerary, 3)) = 2
    /\ itinerary[1].Place # ItinInput[1].Place

\* ceil(n / 4)
CeilQuarter(n) == (n + 3) \div 4

\* C8: the populated days are Day 1 .. Day k without gaps, where
\* k = min(num_days, ceil(n/4)); no entry carries a later label.
Thm_C8_StopsAtEmptySlice ==
    "itinerary" \in done =>
      {itinerary[k].Day : k \in 1..Len(itinerary)}
        = {<<"Day", d>> : d \in 1..Min(num_days, CeilQuarter(Len(ItinInput)))}

\* more days asked for than the places fill
Wit_C8_FewerDaysThanAsked ==
    /\ "itinerary" \in done
    /\ Len(ItinInput) = 5
    /\ num_days = 4
    /\ {DayOf(itinerary[k]) : k \in 1..Len(itinerary)} = {1, 2}

\* C9: at most 4 * num_days entries, at most 4 entries per day.
Thm_C9_AtMostFourPerDay ==
    "itinerary" \in done =>
      /\ Len(itinerary) <= 4 * num_days
      /\ \A d \in 1..num_days : Len(EntriesOfDay(itinerary, d)) <= 4
      /\ \A k \in 1..Len(itinerary) : DayOf(itinerary[k]) \in 1..num_days

\* more places than the days can hold: the itinerary is full
Wit_C9_Full ==
    /\ "itinerary" \in done
    /\ num_days = 2
    /\ Len(ItinInput) > 8
    /\ Len(itinerary) = 8

\* C10: the threshold builder of app.py schedules every input place: the
\* itinerary has as many entries as there are input places.
Claim_C10_EveryPlaceScheduled ==
    "app_itinerary" \in done =>
      Len(app_itinerary) = Cardinality(DOMAIN traffic_data)


NoRepeat(it) == \A k, l \in 1..Len(it) : k # l => it[k].Place # it[l].Place

\* C11: in both builders every entry names a place of the input and no
\* place is scheduled in more than one entry.
Thm_C11_InputPlacesOnce ==
    /\ "itinerary" \in done =>
         /\ \A k \in 1..Len(itinerary) :
              \E i \in 1..Len(ItinInput) : ItinInput[i].Place = itinerary[k].Place
         /\ NoRepeat(itinerary)
    /\ "app_itinerary" \in done =>
         /\ \A k \in 1..Len(app_itinerary) :
              app_itinerary[k].Place \in DOMAIN traffic_data
         /\ NoRepeat(app_itinerary)

\* a web.py itinerary over several days
Wit_C11_SeveralDays ==
    /\ "itinerary" \in done
    /\ Len(itinerary) >= 9
    /\ DayOf(itinerary[Len(itinerary)]) = 3


(***************************************************************************)
(* Specification SpecCat: generate_itinerary of web.py applied to a single *)
(* recommendation whose type tags are drawn from the tags of the table and *)
(* one tag outside it.                                                     *)
(***************************************************************************)
Tags == DOMAIN place_type_categories \cup {"tourist_attraction"}
TagLists == UNION {[1..k -> Tags] : k \in 0..MaxTags}

InitCat ==
    /\ \E types \in TagLists :
         /\ places = <<[name |-> "A", rating |-> 45, types |-> types]>>
         /\ recommendations =
               <<[Place |-> "A", Travel_Time |-> 10, Rating |-> 45,
                  Score |-> RatInt(5), types |-> types]>>
    /\ traffic_data = MakeTraffic({1}, <<10>>)
    /\ \E c \in ItinConditions :
         /\ response = [raises |-> FALSE, status_code |-> 200, has_main |-> TRUE,
                        has_weather |-> TRUE, condition |-> c, temp |-> 250]
         /\ weather_data = get_weather_data_cached(response)
    /\ num_days = 1
    /\ weather_quality = weather_data.quality
    /\ user_preferences = EmptyPrefs
    /\ recommendations_by_time = <<>>
    /\ app_recommendations = <<>>
    /\ itinerary = <<>>
    /\ app_itinerary = <<>>
    /\ IdleTraffic
    /\ IdleSession
    /\ done = {}

NextCat == GenerateItineraryWeb

SpecCat == InitCat /\ [][NextCat]_vars

\* the first tag of a list that is in a set of tags (<<>> if there is none)
FirstTagIn(types, S) ==
    LET hits == {i \in 1..Len(types) : types[i] \in S}
    IN  IF hits = {} THEN <<>>
        ELSE <<types[CHOOSE i \in hits : \A j \in hits : i <= j]>>

\* C12 as stated: the table has seven tags.
Orig_C12_SevenTags ==
    "itinerary" \in done =>
      LET first == FirstTagIn(recommendations[1].types,
                              {"park", "museum", "art_gallery", "shopping_mall",
                               "restaurant", "cafe", "bar"})
      IN  itinerary[1].Category =
            (IF first = <<>> THEN "Mixed"
             ELSE IF first[1] = "park" THEN "Outdoor"
             ELSE IF first[1] \in {"museum", "art_gallery", "shopping_mall"} THEN "Indoor"
             ELSE "Dining")

\* C12 (amended): the category comes from the first tag that is one of the
\* eleven tags of the table: park, amusement_park, zoo give outdoor; museum,
\* art_gallery, shopping_mall indoor; restaurant, cafe, bar dining;
\* point_of_interest, establishment mixed; no such tag gives mixed.
Thm_C12_ElevenTags ==
    "itinerary" \in done =>
      LET first == FirstTagIn(recommendations[1].types,
                              {"park", "amusement_park", "zoo",
                               "museum", "art_gallery", "shopping_mall",
                               "restaurant", "cafe", "bar",
                               "point_of_interest", "establishment"})
      IN  itinerary[1].Category =
            (IF first = <<>> THEN "Mixed"
             ELSE IF first[1] \in {"park", "amusement_park", "zoo"} THEN "Outdoor"
             ELSE IF first[1] \in {"museum", "art_gallery", "shopping_mall"} THEN "Indoor"
             ELSE IF first[1] \in {"restaurant", "cafe", "bar"} THEN "Dining"
             ELSE "Mixed")

\* a tag outside the table followed by zoo: the place is outdoor
Wit_C12_Zoo ==
    /\ "itinerary" \in done
    /\ recommendations[1].types = <<"tourist_attraction", "zoo">>
    /\ itinerary[1].Category = "Outdoor"


\* C13: the best-time label of an entry of web.py is determined by its
\* category, the outdoor-friendly flag and the start index s of its day's
\* slice: outdoor in outdoor-friendly weather gives Morning, Afternoon,
\* Evening for s mod 3 = 0, 1, 2; indoor gives Anytime; dining gives Lunch
\* for even s and Dinner for odd s; everything else gives Afternoon.
Thm_C13_BestTimeRule ==
    "itinerary" \in done =>
      \A k \in 1..Len(itinerary) :
        LET e == itinerary[k]
            s == 4 * (DayOf(e) - 1)
            friendly == OutdoorFriendly(weather_data.condition)
        IN  e.Best_Time =
              (CASE e.Category = "Outdoor" /\ friendly /\ s % 3 = 0 -> "Morning"
                 [] e.Category = "Outdoor" /\ friendly /\ s % 3 = 1 -> "Afternoon"
                 [] e.Category = "Outdoor" /\ friendly /\ s % 3 = 2 -> "Evening"
                 [] e.Category = "Indoor" -> "Anytime"
                 [] e.Category = "Dining" /\ s % 2 = 0 -> "Lunch"
                 [] e.Category = "Dining" /\ s % 2 = 1 -> "Dinner"
                 [] OTHER -> "Afternoon")

\* an outdoor place on the third day (s = 8) in clear weather
Wit_C13_OutdoorEvening ==
    /\ "itinerary" \in done
    /\ \E k \in 1..Len(itinerary) :
         /\ itinerary[k].Category = "Outdoor"
         /\ DayOf(itinerary[k]) = 3
         /\ itinerary[k].Best_Time = "Evening"
    /\ \E k \in 1..Len(itinerary) :
         itinerary[k].Category = "Dining" /\ itinerary[k].Best_Time = "Lunch"

\* C14: an itinerary of web.py with dining places on two consecutive days
\* contains both a Lunch and a Dinner entry.
Claim_C14_LunchAndDinner ==
    "itinerary" \in done =>
      LET DiningDays == {DayOf(itinerary[k]) :
                           k \in {j \in 1..Len(itinerary) : itinerary[j].Category = "Dining"}}
          Labels == {itinerary[k].Best_Time : k \in 1..Len(itinerary)}
      IN  (\E d \in DiningDays : d + 1 \in DiningDays) =>
             ("Lunch" \in Labels /\ "Dinner" \in Labels)

\* C15: in both builders the outdoor-friendly flag is true iff the condition
\* contains "clear", "sunny" or "few clouds"; it is false for "unknown",
\* "error" and "scattered clouds".  The flag shows in web.py in the label of
\* an outdoor place on a day whose start index is not 1 mod 3, and in app.py
\* in the type of a place less than 25 minutes away.
Thm_C15_OutdoorFriendlyFlag ==
    LET c == weather_data.condition
        friendly == \/ Contains(<<"c", "l", "e", "a", "r">>, c)
                    \/ Contains(<<"s", "u", "n", "n", "y">>, c)
                    \/ Contains(<<"f", "e", "w", " ", "c", "l", "o", "u", "d", "s">>, c)
    IN  /\ "itinerary" \in done =>
             \A k \in 1..Len(itinerary) :
               (itinerary[k].Category = "Outdoor" /\ (4 * (DayOf(itinerary[k]) - 1)) % 3 # 1)
                 => (itinerary[k].Best_Time \in {"Morning", "Evening"} <=> friendly)
        /\ "app_itinerary" \in done =>
             \A k \in 1..Len(app_itinerary) :
               MinutesOf(app_itinerary[k]) < 25
                 => (app_itinerary[k].Type = "outdoor" <=> friendly)
        /\ c \in {W_unknown, W_error,
                  <<"s", "c", "a", "t", "t", "e", "r", "e", "d", " ", "c", "l", "o", "u", "d", "s">>}
             => ~friendly

\* "few clouds": an outdoor place of the first day is a morning visit
Wit_C15_FewClouds ==
    /\ "itinerary" \in done
    /\ weather_data.condition = <<"f", "e", "w", " ", "c", "l", "o", "u", "d", "s">>
    /\ \E k \in 1..Len(itinerary) :
         itinerary[k].Category = "Outdoor" /\ itinerary[k].Best_Time = "Morning"

\* C16: app.py classifies an entry by its travel time t and the flag:
\* outdoor if outdoor-friendly and t < 25, else mixed if t < 40, else indoor
\* or dining; Best Time is Morning, Afternoon, Evening respectively, whatever
\* the day.
Thm_C16_ThresholdClasses ==
    "app_itinerary" \in done =>
      \A k \in 1..Len(app_itinerary) :
        LET e == app_itinerary[k]
            t == MinutesOf(e)
            friendly == OutdoorFriendly(weather_data.condition)
        IN  /\ e.Type = (IF friendly /\ t < 25 THEN "outdoor"
                         ELSE IF t < 40 THEN "mixed" ELSE "indoor or dining")
            /\ e.Best_Time = (CASE e.Type = "outdoor" -> "Morning"
                                [] e.Type = "mixed" -> "Afternoon"
                                [] e.Type = "indoor or dining" -> "Evening")

\* 25 and 40 minutes in outdoor-friendly weather: mixed, and indoor or dining
Wit_C16_AtTheThresholds ==
    /\ "app_itinerary" \in done
    /\ OutdoorFriendly(weather_data.condition)
    /\ Len(app_itinerary) = 2
    /\ MinutesOf(app_itinerary[1]) = 25 /\ app_itinerary[1].Type = "mixed"
    /\ MinutesOf(app_itinerary[2]) = 40 /\ app_itinerary[2].Best_Time = "Evening"

\* C18: without places both builders return an empty itinerary, for every
\* number of days and every weather value.
Thm_C18_NoPlacesNoEntries ==
    /\ ("itinerary" \in done /\ recommendations = <<>>) => itinerary = <<>>
    /\ ("app_itinerary" \in done /\ DOMAIN traffic_data = {}) => app_itinerary = <<>>

\* app.py with no places, three days, after a failed weather fetch
Wit_C18_AppNoPlaces ==
    /\ "app_itinerary" \in done
    /\ DOMAIN traffic_data = {}
    /\ num_days = 3
    /\ weather_data.condition = W_error
    /\ app_itinerary = <<>>


\* C17: recommend_places called with an empty place list returns an empty
\* list, for every traffic map, weather quality and preferences.
Thm_C17_NoPlacesNoRecommendations ==
    places = <<>> =>
      /\ "web" \in done => recommendations = <<>>
      /\ "web_time" \in done => recommendations_by_time = <<>>
      /\ "app" \in done => app_recommendations = <<>>

\* no places, a traffic map with entries, both orderings of web.py computed
Wit_C17_EmptyListFullMap ==
    /\ places = <<>>
    /\ DOMAIN traffic_data # {}
    /\ {"web", "web_time"} \subseteq done
    /\ recommendations = <<>> /\ recommendations_by_time = <<>>

\* C19 as stated: every failure of the weather fetch is answered with
\* quality 5, condition "unknown" and temperature 25.
Orig_C19_AlwaysUnknown ==
    (Fetched /\ ~Successful) =>
      weather_data = [condition |-> W_unknown, temp |-> 250, quality |-> 5]

\* C19 (amended): every failure is answered with quality 5 and temperature
\* 25; the condition is "unknown" after a non-200 status or a response
\* without the main or weather field, and "error" after an exception.
Thm_C19_FailureDefaults ==
    (Fetched /\ ~Successful) =>
      /\ weather_data.quality = 5
      /\ weather_data.temp = 250
      /\ response.raises => weather_data.condition = <<"e", "r", "r", "o", "r">>
      /\ ~response.raises =>
           weather_data.condition = <<"u", "n", "k", "n", "o", "w", "n">>

\* an exception during a request that would have answered 200
Wit_C19_ExceptionGivesError ==
    /\ Fetched
    /\ response.raises /\ response.status_code = 200
    /\ weather_data = [condition |-> W_error, temp |-> 250, quality |-> 5]


(***************************************************************************)
(* get_traffic_data_for_places_cached (web.py 796-824, app.py 114-137).    *)
(* The answer of the distance-matrix request for one place is a record:    *)
(* raises (the request or the decoding raised), status (data["status"]),   *)
(* has_rows (data["rows"] is non-empty), element_status, has_duration      *)
(* (the element has duration_in_traffic) and seconds (its value).          *)
(***************************************************************************)
\* the dict stored for one place
LookupEntry(r) ==
    IF r.raises THEN [travel_time |-> 15, traffic_level |-> 5]
    ELSE IF r.status = "OK" /\ r.has_rows
    THEN IF r.element_status = "OK"
         THEN IF ~r.has_duration
              THEN [travel_time |-> 15, traffic_level |-> 5]     \* KeyError, except branch
              ELSE LET travel_time == r.seconds \div 60
                       traffic_level == Min(Max(travel_time \div 5, 1), 10)
                   IN  [travel_time |-> travel_time, traffic_level |-> traffic_level]
         ELSE [travel_time |-> 15, traffic_level |-> 5]
    ELSE [travel_time |-> 15, traffic_level |-> 5]

\* mutant: the loop ends at the first lookup that raises
get_traffic_data_for_places_cached_StopsAtError(ps, resps) ==
    LET raised == {i \in 1..Len(ps) : resps[i].raises}
        last == IF raised = {} THEN Len(ps)
                ELSE (CHOOSE i \in raised : \A j \in raised : i <= j) - 1
    IN  [nm \in {ps[i].name : i \in 1..last} |->
           LookupEntry(resps[CHOOSE i \in 1..last :
                               ps[i].name = nm /\ \A j \in (i + 1)..last : ps[j].name # nm])]

\* the loop over places: traffic_data[place["name"]] = ... (a later place of
\* the same name overwrites the entry)
get_traffic_data_for_places_cached(ps, resps) ==
    [nm \in {ps[i].name : i \in 1..Len(ps)} |->
       LookupEntry(resps[CHOOSE i \in 1..Len(ps) :
                           ps[i].name = nm /\ \A j \in (i + 1)..Len(ps) : ps[j].name # nm])]

(***************************************************************************)
(* Specification SpecTraffic: the traffic lookup applied to up to          *)
(* MaxTrafficPlaces places and one answer per place.                       *)
(***************************************************************************)
TrafficSeconds == {0, 59, 60, 299, 300, 3000, 3059, 7200}
OkResponse(sec) ==
    [raises |-> FALSE, status |-> "OK", has_rows |-> TRUE,
     element_status |-> "OK", has_duration |-> TRUE, seconds |-> sec]
TrafficAnswers ==
    {OkResponse(sec) : sec \in TrafficSeconds}
    \cup {[OkResponse(600) EXCEPT !.raises = TRUE],
          [OkResponse(600) EXCEPT !.status = "OVER_QUERY_LIMIT"],
          [OkResponse(600) EXCEPT !.has_rows = FALSE],
          [OkResponse(600) EXCEPT !.element_status = "ZERO_RESULTS"],
          [OkResponse(600) EXCEPT !.has_duration = FALSE]}

InitTraffic ==
    /\ \E n \in 0..MaxTrafficPlaces :
         /\ places = MakePlaces(n, [i \in 1..n |-> ItinRating(i)])
         /\ traffic_responses \in [1..n -> TrafficAnswers]
    /\ traffic_data = EmptyPrefs
    /\ weather_quality = 5 /\ user_preferences = EmptyPrefs
    /\ recommendations = <<>> /\ recommendations_by_time = <<>>
    /\ app_recommendations = <<>>
    /\ IdleWeather
    /\ IdleItin
    /\ IdleSession
    /\ done = {}

\* web.py 1273: traffic_data = get_traffic_data_for_places_cached(
\*                  user_lat, user_lng, nearby_places)
GetTrafficDataWeb ==
    /\ "app_traffic" \notin done
    /\ traffic_data' = get_traffic_data_for_places_cached(places, traffic_responses)
    /\ done' = done \cup {"traffic"}
    /\ UNCHANGED <<places, weather_quality, user_preferences, recommendations,
                   recommendations_by_time, app_recommendations,
                   weatherVars, itinVars, trafficVars, sessionVars>>

\* app.py 261: traffic_data = get_traffic_data_for_places_cached(lat, lng, nearby_places)
GetTrafficDataApp ==
    /\ "traffic" \notin done
    /\ traffic_data' = get_traffic_data_for_places_cached(places, traffic_responses)
    /\ done' = done \cup {"app_traffic"}
    /\ UNCHANGED <<places, weather_quality, user_preferences, recommendations,
                   recommendations_by_time, app_recommendations,
                   weatherVars, itinVars, trafficVars, sessionVars>>

NextTraffic == GetTrafficDataWeb \/ GetTrafficDataApp

SpecTraffic == InitTraffic /\ [][NextTraffic]_vars

TrafficFetched == done \cap {"traffic", "app_traffic"} # {}
LookupSucceeded(r) ==
    /\ ~r.raises /\ r.status = "OK" /\ r.has_rows
    /\ r.element_status = "OK" /\ r.has_duration

\* C20: the traffic lookup returns an entry for the name of every place; a
\* lookup that fails in any way gives travel_time 15 and traffic_level 5 for
\* that place and the remaining places are still looked up; a successful
\* lookup gives travel_time = seconds // 60 and traffic_level =
\* travel_time // 5 clamped to 1..10.
Thm_C20_EntryForEveryPlace ==
    TrafficFetched =>
      /\ DOMAIN traffic_data = {places[i].name : i \in 1..Len(places)}
      /\ \A i \in 1..Len(places) :
           LET r == traffic_responses[i]
               e == traffic_data[places[i].name]
               q == (r.seconds \div 60) \div 5
           IN  IF LookupSucceeded(r)
               THEN /\ e.travel_time = r.seconds \div 60
                    /\ e.traffic_level = (IF q < 1 THEN 1 ELSE IF q > 10 THEN 10 ELSE q)
               ELSE e.travel_time = 15 /\ e.traffic_level = 5

\* the first lookup raises, the second takes 3059 s (50 minutes, level 10),
\* the third 59 s (0 minutes, level 1)
Wit_C20_ContinuesAfterFailure ==
    /\ TrafficFetched
    /\ Len(places) = 3
    /\ traffic_responses[1].raises
    /\ traffic_data[places[1].name] = [travel_time |-> 15, traffic_level |-> 5]
    /\ traffic_responses[2].seconds = 3059
    /\ traffic_data[places[2].name] = [travel_time |-> 50, traffic_level |-> 10]
    /\ traffic_responses[3].seconds = 59
    /\ traffic_data[places[3].name] = [travel_time |-> 0, traffic_level |-> 1]


\* C21: for fixed recommendations, weather and num_days the itinerary of
\* web.py is the same for any two values of user_preferences.
Thm_C21_PreferencesIgnored ==
    "itinerary" \in done =>
      \A prefs \in ItinPrefs \cup {MakePrefs(<<3, 3, 2>>, "Cultural")} :
        itinerary = generate_itinerary(ItinInput, weather_data, prefs, num_days)

\* a relaxation request whose itinerary spans two days with differing travel times
Wit_C21_RelaxationTwoDays ==
    /\ "itinerary" \in done
    /\ DOMAIN user_preferences # {}
    /\ Len(itinerary) >= 5
    /\ MinutesOf(itinerary[1]) < MinutesOf(itinerary[Len(itinerary)])

\* C28: the itinerary of web.py is ascending in travel time as a whole: an
\* entry of an earlier day has a travel time <= that of an entry of a later
\* day, and the day label never decreases along the list.
Thm_C28_AscendingAcrossDays ==
    "itinerary" \in done =>
      /\ \A k, l \in 1..Len(itinerary) :
           DayOf(itinerary[k]) < DayOf(itinerary[l])
             => MinutesOf(itinerary[k]) <= MinutesOf(itinerary[l])
      /\ \A k \in 1..(Len(itinerary) - 1) :
           /\ DayOf(itinerary[k]) <= DayOf(itinerary[k + 1])
           /\ MinutesOf(itinerary[k]) <= MinutesOf(itinerary[k + 1])

\* the slowest place came first in the input and ends on the last day
Wit_C28_SlowestLast ==
    /\ "itinerary" \in done
    /\ Len(ItinInput) >= 6
    /\ ItinInput[1].Travel_Time > ItinInput[2].Travel_Time
    /\ DayOf(itinerary[Len(itinerary)]) = 2
    /\ itinerary[Len(itinerary)].Place = ItinInput[1].Place

\* the items app.py hands to its sort, in dict order
AppInput == DictItems(traffic_data, [i \in 1..Len(places) |-> places[i].name])

\* position of the i-th item in the travel-time-ascending ordering
AppRankByTravel(i) ==
    1 + Cardinality({j \in 1..Len(AppInput) :
                       \/ AppInput[j][2].travel_time < AppInput[i][2].travel_time
                       \/ /\ AppInput[j][2].travel_time = AppInput[i][2].travel_time
                          /\ j < i})

\* C29: in app.py places_per_day = max(1, n // num_days); day d holds the
\* places at positions (d-1)*places_per_day .. d*places_per_day - 1 of the
\* travel-time-ascending ordering; every day holds at most places_per_day
\* places; when n < num_days the first n days hold one place each and the
\* remaining days are empty.
Thm_C29_AppDaySlices ==
    "app_itinerary" \in done =>
      LET n == Len(AppInput)
          ppd == IF n \div num_days >= 1 THEN n \div num_days ELSE 1
      IN  /\ \A i \in 1..n :
               LET k == AppRankByTravel(i)
               IN  IF k <= ppd * num_days
                   THEN /\ k <= Len(app_itinerary)
                        /\ app_itinerary[k].Place = AppInput[i][1]
                        /\ DayOf(app_itinerary[k]) = ((k - 1) \div ppd) + 1
                   ELSE \A l \in 1..Len(app_itinerary) :
                          app_itinerary[l].Place # AppInput[i][1]
          /\ \A d \in 1..num_days : Len(EntriesOfDay(app_itinerary, d)) <= ppd
          /\ \A l \in 1..Len(app_itinerary) : DayOf(app_itinerary[l]) \in 1..num_days
          /\ n < num_days =>
               \A d \in 1..num_days :
                 Len(EntriesOfDay(app_itinerary, d)) = (IF d <= n THEN 1 ELSE 0)

\* seven places over three days: two a day, the slowest place left out
Wit_C29_TwoPerDay ==
    /\ "app_itinerary" \in done
    /\ Len(AppInput) = 7 /\ num_days = 3
    /\ Len(app_itinerary) = 6
    /\ Len(EntriesOfDay(app_itinerary, 3)) = 2
    /\ AppInput[1][2].travel_time > AppInput[2][2].travel_time


\* C22: in recommend_places max_travel_time is >= 1, the normalized travel
\* time of every scored place lies in [0,1] and, the weights being in
\* [0,1], every score is >= 0; also for a place without an entry in the
\* traffic map and for an empty traffic map.
Claim_C22_NormalizedTravelInUnitRange ==
    \A r \in RecResults : \A i \in 1..Len(r) :
      /\ MaxTravel >= 1
      /\ 0 <= r[i].Travel_Time /\ r[i].Travel_Time <= MaxTravel
      /\ RatLeq(RatInt(0), r[i].Score)


(***************************************************************************)
(* The Trip Ideas page (web.py 1771-1781) and the language selector        *)
(* (web.py 383-392).                                                       *)
(***************************************************************************)
\* LANGUAGES.values()
LangCodes == {"en", "kn", "te", "ta", "hi", "ml", "bn", "pa", "gu", "mr"}

\* if 11 <= m <= 2 ... elif 3 <= m <= 6 ... else ...
SeasonalRecommendations(m) ==
    IF 11 <= m /\ m <= 2
    THEN [recommendations |-> <<"Mysuru", "Chennai", "Pondicherry">>,
          reason |-> "pleasant temperatures and clear skies"]
    ELSE IF 3 <= m /\ m <= 6
    THEN [recommendations |-> <<"Bengaluru", "Mysuru">>,
          reason |-> "relatively cooler temperatures compared to other parts of India"]
    ELSE [recommendations |-> <<"Chennai", "Pondicherry", "Bengaluru">>,
          reason |-> "post-monsoon greenery and cultural festivities"]

InitSeason ==
    /\ current_month_num \in 1..12
    /\ seasonal = <<>>
    /\ IdleLang
    /\ IdleRec /\ IdleWeather /\ IdleItin /\ IdleTraffic /\ IdlePage /\ IdleChat
    /\ done = {}

\* a script run of the Trip Ideas page: the block is computed for the month
\* of the clock and shown
RenderTripIdeas ==
    /\ seasonal' = <<[month |-> current_month_num,
                      shown |-> SeasonalRecommendations(current_month_num)]>>
    /\ done' = done \cup {"trip_ideas"}
    /\ UNCHANGED <<recVars, weatherVars, itinVars, trafficVars, pageVars, chatVars,
                   langVars, current_month_num>>

\* the calendar moves on to the next month
NextMonth ==
    /\ current_month_num' = (current_month_num % 12) + 1
    /\ UNCHANGED <<recVars, weatherVars, itinVars, trafficVars, pageVars, chatVars,
                   langVars, seasonal, done>>

\* translate_text(text_key, lang_code) over a loaded table
translate_text(table, text_key, code) ==
    IF code \in DOMAIN table /\ text_key \in DOMAIN table[code]
    THEN table[code][text_key]
    ELSE Get(table.en, text_key, text_key)

\* [t("adventure"), t("relaxation"), t("cultural")]
TripTypeOptions(table, code) ==
    <<translate_text(table, "adventure", code),
      translate_text(table, "relaxation", code),
      translate_text(table, "cultural", code)>>

\* web.py 1175-1184: user_preferences as the sidebar gives it (sliders at
\* their defaults), the selectbox returning the label of the selected option
SidebarUserPreferences(table, code, option) ==
    MakePrefs(<<3, 3, 2>>, TripTypeOptions(table, code)[option + 1])

\* the language selector: st.session_state.lang_code = LANGUAGES[lang] and
\* st.rerun(); a selectbox whose options changed starts at its first option
SelectLanguage ==
    /\ \E code \in LangCodes :
         /\ code # lang_code
         /\ lang_code' = code
         /\ trip_option' = IF TripTypeOptions(translations, code)
                               = TripTypeOptions(translations, lang_code)
                            THEN trip_option ELSE 0
         /\ user_preferences' = SidebarUserPreferences(translations, code, trip_option')
    /\ handler' = "select_language"
    /\ UNCHANGED <<places, traffic_data, weather_quality, recommendations,
                   recommendations_by_time, app_recommendations,
                   weatherVars, itinVars, trafficVars, chatVars,
                   destination, lat, lng, user_lat, user_lng,
                   pit_stops, pit_stop_count, pit_stop_data,
                   translations, seasonVars, done>>

NextSeason == RenderTripIdeas \/ NextMonth \/ SelectLanguage

SpecSeason == InitSeason /\ [][NextSeason]_vars

\* C30: the seasonal block follows the month: the winter list (Mysuru,
\* Chennai, Pondicherry) in months 11, 12, 1, 2, the summer list (Bengaluru,
\* Mysuru) in months 3 to 6, the monsoon list (Chennai, Pondicherry,
\* Bengaluru) in every other month.
Claim_C30_SeasonFollowsMonth ==
    \A k \in 1..Len(seasonal) :
      seasonal[k].shown.recommendations =
        (IF seasonal[k].month \in {11, 12, 1, 2} THEN <<"Mysuru", "Chennai", "Pondicherry">>
         ELSE IF seasonal[k].month \in 3..6 THEN <<"Bengaluru", "Mysuru">>
         ELSE <<"Chennai", "Pondicherry", "Bengaluru">>)


(***************************************************************************)
(* The planning page: session state, pit stops and the plan request        *)
(* (web.py 1159-1171, 1227-1309; app.py 238-269).  The services answer by  *)
(* name: a city has coordinates (or none), a weather report, nearby places *)
(* and travel times; the answers are cached, so a name always gets the     *)
(* same answer.                                                            *)
(***************************************************************************)
Cities == {"Mysuru", "Chennai"}
StopNames == {"Hampi", "Ooty", "Nowhere"}
DestinationInputs == Cities \cup {"Atlantis", ""}
UserLocations == {"", "Home"}

\* get_coordinates / get_user_coordinates: (lat, lng), or (None, None)
get_coordinates(city) ==
    CASE city = "Mysuru" -> <<12, 76>>
      [] city = "Chennai" -> <<13, 80>>
      [] city = "Hampi" -> <<15, 76>>
      [] city = "Ooty" -> <<11, 77>>
      [] city = "Home" -> <<13, 77>>
      [] OTHER -> <<None, None>>

\* get_nearby_places_cached at the coordinates of a city
NearbyPlaces(city) ==
    CASE city = "Mysuru" ->
           <<[name |-> "A", rating |-> 45, types |-> <<"museum">>],
             [name |-> "B", rating |-> NA, types |-> <<"park">>]>>
      [] city = "Chennai" ->
           <<[name |-> "C", rating |-> 40, types |-> <<"restaurant">>]>>
      [] city = "Hampi" ->
           <<[name |-> "D", rating |-> 30, types |-> <<"museum">>],
             [name |-> "E", rating |-> 45, types |-> <<"park">>],
             [name |-> "F", rating |-> NA, types |-> <<>>],
             [name |-> "G", rating |-> 40, types |-> <<"zoo">>]>>
      [] city = "Ooty" ->
           <<[name |-> "H", rating |-> 45, types |-> <<"park">>]>>
      [] OTHER -> <<>>

\* the Distance Matrix answers for the places of a city
TrafficAnswersOf(city) ==
    LET secs == CASE city = "Mysuru" -> <<1800, 600>>
                  [] city = "Chennai" -> <<900>>
                  [] city = "Hampi" -> <<600, 1200, 2400, 300>>
                  [] city = "Ooty" -> <<3000>>
                  [] OTHER -> <<>>
    IN  [i \in 1..Len(secs) |-> OkResponse(secs[i])]

\* the OpenWeather answer for a city
WeatherAnswerOf(city) ==
    [raises |-> FALSE, status_code |-> 200, has_main |-> TRUE, has_weather |-> TRUE,
     condition |-> IF city = "Mysuru" THEN ClearSky
                   ELSE <<"l", "i", "g", "h", "t", " ", "r", "a", "i", "n">>,
     temp |-> IF city = "Mysuru" THEN 250 ELSE 310]

\* the sidebar sliders and the trip type at their defaults (web.py 1175-1184)
SidebarPreferences == MakePrefs(<<3, 3, 2>>, "Adventure")

\* dict assignment d[k] = v
Put(d, k, v) == [x \in DOMAIN d \cup {k} |-> IF x = k THEN v ELSE d[x]]

\* web.py 1292-1309: the loop over pit_stops from slot i on
RECURSIVE ProcessPitStops(_, _, _, _, _)
ProcessPitStops(i, stops, data, quality, prefs) ==
    IF i > Len(stops) THEN data
    ELSE LET stop == stops[i]
             coords == get_coordinates(stop)
         IN  IF stop # "" /\ coords[1] # None /\ coords[2] # None
             THEN LET stop_places == NearbyPlaces(stop)
                      stop_traffic == get_traffic_data_for_places_cached(
                                          stop_places, TrafficAnswersOf(stop))
                      stop_recommendations ==
                          Slice(recommend_places(stop_places, stop_traffic, quality,
                                                 prefs, FALSE), 0, 3)
                  IN  ProcessPitStops(i + 1, stops, Put(data, stop, stop_recommendations),
                                      quality, prefs)
             ELSE ProcessPitStops(i + 1, stops, data, quality, prefs)

\* any(st.session_state.pit_stops)
AnyStop(stops) == \E i \in 1..Len(stops) : stops[i] # ""

\* if any(pit_stops): pit_stop_data = {}; for stop in pit_stops: ...
PitStopDataAfter(stops, data, quality, prefs) ==
    IF AnyStop(stops) THEN ProcessPitStops(1, stops, <<>>, quality, prefs)
    ELSE data

InitPlan ==
    /\ IdlePage /\ IdleChat /\ IdleLang /\ IdleSeason
    /\ places = <<>> /\ traffic_data = EmptyPrefs
    /\ weather_quality = 5
    /\ user_preferences = SidebarPreferences
    /\ recommendations = <<>> /\ recommendations_by_time = <<>>
    /\ app_recommendations = <<>>
    /\ IdleWeather /\ IdleItin /\ IdleTraffic
    /\ done = {}

planUnchanged == <<weather_quality, user_preferences, response, itinVars, trafficVars,
                   chatVars, langVars, seasonVars>>

\* web.py 1227-1229: the add-stop button
AddStop ==
    /\ "app_page" \notin done
    /\ pit_stop_count < 3
    /\ pit_stop_count' = pit_stop_count + 1
    /\ handler' = "add_stop"
    /\ done' = done \cup {"web_page"}
    /\ UNCHANGED <<places, traffic_data, recommendations, recommendations_by_time,
                   app_recommendations, weather_data, destination, lat, lng,
                   user_lat, user_lng, pit_stops, pit_stop_data, planUnchanged>>

\* web.py 1232-1233: the text of one of the shown pit-stop fields is changed
EditStop ==
    /\ "app_page" \notin done
    /\ \E i \in 1..pit_stop_count, text \in StopNames \cup {""} :
         /\ text # pit_stops[i]
         /\ pit_stops' = [pit_stops EXCEPT ![i] = text]
    /\ handler' = "edit_stop"
    /\ done' = done \cup {"web_page"}
    /\ UNCHANGED <<places, traffic_data, recommendations, recommendations_by_time,
                   app_recommendations, weather_data, destination, lat, lng,
                   user_lat, user_lng, pit_stop_count, pit_stop_data, planUnchanged>>

\* mutant: reset only sets the count back
ResetStops_CountOnly ==
    /\ "app_page" \notin done
    /\ pit_stop_count > 0
    /\ pit_stop_count' = 0
    /\ handler' = "reset_stops"
    /\ done' = done \cup {"web_page"}
    /\ UNCHANGED <<places, traffic_data, recommendations, recommendations_by_time,
                   app_recommendations, weather_data, destination, lat, lng,
                   user_lat, user_lng, pit_stops, pit_stop_data, planUnchanged>>

\* web.py 1235-1238: the reset button
ResetStops ==
    /\ "app_page" \notin done
    /\ pit_stop_count > 0
    /\ pit_stops' = <<"", "", "">>
    /\ pit_stop_count' = 0
    /\ handler' = "reset_stops"
    /\ done' = done \cup {"web_page"}
    /\ UNCHANGED <<places, traffic_data, recommendations, recommendations_by_time,
                   app_recommendations, weather_data, destination, lat, lng,
                   user_lat, user_lng, pit_stop_data, planUnchanged>>


\* web.py 1242-1309: the plan-trip button with the texts of the destination
\* and current-location fields
PlanTripWeb ==
    /\ "app_page" \notin done
    /\ done' = done \cup {"web_page"}
    /\ \E d \in DestinationInputs, user_location \in UserLocations :
         IF d = ""
         THEN /\ handler' = "plan_trip: no destination"
              /\ UNCHANGED <<places, traffic_data, recommendations, recommendations_by_time,
                             weather_data, destination, lat, lng, user_lat, user_lng,
                             pit_stop_data>>
         ELSE LET coords == get_coordinates(d)
                  user_coords == IF user_location # "" THEN get_coordinates(user_location)
                                 ELSE coords
              IN  /\ destination' = d
                  /\ lat' = coords[1] /\ lng' = coords[2]
                  /\ user_lat' = user_coords[1] /\ user_lng' = user_coords[2]
                  /\ IF coords[1] = None \/ coords[2] = None
                     THEN /\ handler' = "plan_trip: no coordinates"
                          /\ UNCHANGED <<places, traffic_data, recommendations,
                                         recommendations_by_time, weather_data,
                                         pit_stop_data>>
                     ELSE LET weather == get_weather_data_cached(WeatherAnswerOf(d))
                              nearby_places == NearbyPlaces(d)
                              traffic == get_traffic_data_for_places_cached(
                                             nearby_places, TrafficAnswersOf(d))
                          IN  /\ weather_data' = weather
                              /\ places' = nearby_places
                              /\ traffic_data' = traffic
                              /\ recommendations' =
                                    recommend_places(nearby_places, traffic, weather.quality,
                                                     user_preferences, FALSE)
                              /\ recommendations_by_time' =
                                    recommend_places(nearby_places, traffic, weather.quality,
                                                     user_preferences, TRUE)
                              /\ pit_stop_data' =
                                    PitStopDataAfter(pit_stops, pit_stop_data,
                                                     weather.quality, user_preferences)
                              /\ handler' = "plan_trip"
    /\ UNCHANGED <<app_recommendations, pit_stops, pit_stop_count, planUnchanged>>

\* app.py 250-269: the get-recommendations button
GetRecommendationsApp ==
    /\ "web_page" \notin done
    /\ done' = done \cup {"app_page"}
    /\ \E d \in DestinationInputs :
         LET coords == get_coordinates(d)
         IN  /\ destination' = d
             /\ IF coords[1] # None /\ coords[2] # None
                THEN LET weather == get_weather_data_cached(WeatherAnswerOf(d))
                         nearby_places == NearbyPlaces(d)
                         traffic == get_traffic_data_for_places_cached(
                                        nearby_places, TrafficAnswersOf(d))
                     IN  /\ lat' = coords[1] /\ lng' = coords[2]
                         /\ places' = nearby_places
                         /\ weather_data' = weather
                         /\ traffic_data' = traffic
                         /\ app_recommendations' =
                               app_recommend_places(nearby_places, traffic, weather.quality,
                                                    user_preferences)
                         /\ handler' = "get_recommendations"
                ELSE /\ handler' = "get_recommendations: no coordinates"
                     /\ UNCHANGED <<lat, lng, places, weather_data, traffic_data,
                                    app_recommendations>>
    /\ UNCHANGED <<recommendations, recommendations_by_time, user_lat, user_lng,
                   pit_stops, pit_stop_count, pit_stop_data, planUnchanged>>

NextPlan == AddStop \/ EditStop \/ ResetStops \/ PlanTripWeb \/ GetRecommendationsApp

SpecPlan == InitPlan /\ [][NextPlan]_vars

\* the city whose nearby places a list of recommendations was computed from
CityOf(recs) == CHOOSE c \in Cities :
                  \E i \in 1..Len(NearbyPlaces(c)) : NearbyPlaces(c)[i].name = recs[1].Place

\* destination, coordinates and weather stored in the session are those of city c
SessionIsOf(c) ==
    /\ destination = c
    /\ <<lat, lng>> = get_coordinates(c)
    /\ weather_data = get_weather_data_cached(WeatherAnswerOf(c))

\* C23: after any sequence of plan requests, whenever recommendations are
\* shown, the stored destination, coordinates and weather are those of the
\* request that produced the recommendations (a request whose geocoding
\* fails changes none of them).
Claim_C23_SessionConsistent ==
    /\ recommendations # <<>> => SessionIsOf(CityOf(recommendations))
    /\ (app_recommendations # <<>> /\ lat # None) => SessionIsOf(CityOf(app_recommendations))

\* the stops currently entered that geocode
GeocodedStops ==
    {pit_stops[i] : i \in {j \in 1..3 : /\ pit_stops[j] # ""
                                        /\ get_coordinates(pit_stops[j])[1] # None}}

\* C24: after every plan request whose destination geocodes, pit_stop_data
\* has exactly one entry per pit stop that is currently entered and
\* geocoded, each with at most 3 places in score-descending order, and no
\* entry of a stop that has been removed or reset.
Claim_C24_PitStopDataCurrent ==
    handler = "plan_trip" =>
      /\ DOMAIN pit_stop_data = GeocodedStops
      /\ \A stop \in DOMAIN pit_stop_data :
           /\ Len(pit_stop_data[stop]) <= 3
           /\ DescendingByScore(pit_stop_data[stop])

\* C25: pit_stop_count is in 0..3, pit_stops has three slots, every slot at
\* an index >= pit_stop_count is empty; add-stop is possible only below 3
\* and raises the count by one; reset sets the count to 0 and empties the
\* slots.
PitStopInv ==
    /\ pit_stop_count \in 0..3
    /\ Len(pit_stops) = 3
    /\ \A i \in 1..3 : i > pit_stop_count => pit_stops[i] = ""
    /\ handler = "reset_stops" => (pit_stop_count = 0 /\ pit_stops = <<"", "", "">>)
PitStopStep ==
    /\ pit_stop_count' > pit_stop_count =>
         (pit_stop_count < 3 /\ pit_stop_count' = pit_stop_count + 1)
    /\ handler' = "add_stop" => pit_stop_count' = pit_stop_count + 1
    /\ pit_stop_count' < pit_stop_count =>
         (pit_stop_count' = 0 /\ pit_stops' = <<"", "", "">>)
Thm_C25_PitStopSlots == []PitStopInv /\ [][PitStopStep]_vars

\* three stops were entered, the stops were reset and one stop added again
Wit_C25_ResetThenAdd ==
    /\ handler = "add_stop"
    /\ pit_stop_count = 1
    /\ pit_stops = <<"", "", "">>
    /\ DOMAIN pit_stop_data = {"Hampi", "Ooty"}


(***************************************************************************)
(* The chatbot page (web.py 1947-1997, 2084-2089, 2116-2141).  A chat      *)
(* session is the list of the parts it has exchanged (None is the empty    *)
(* list); the answer of the model to send_message is "ok", "no_text" (the  *)
(* response has no text: ValueError) or "raises".                          *)
(***************************************************************************)
Apology == "I'm sorry, I encountered an error while processing your request."
NoTextReply == "I apologize, but I couldn't generate a response."
ModelOutcomes == {"ok", "no_text", "raises"}
SidebarPrompts == {"quick topic", "personalized itinerary", "discover region"}

\* mutant: after a failed call the chat that was being used is returned
generate_response_ChatOnFailure(prompt, chat_history, outcome) ==
    LET chat == IF chat_history = <<>>
                THEN <<"system_prompt", "DEFAULT_GREETING">>
                ELSE chat_history
    IN  IF outcome = "raises" THEN <<Apology, chat>>
        ELSE <<IF outcome = "no_text" THEN NoTextReply ELSE "reply",
               chat \o <<prompt, "reply">> >>

\* IndiaYatraBot.generate_response: <<response text, chat>>
generate_response(prompt, chat_history, outcome) ==
    LET chat == IF chat_history = <<>>
                THEN <<"system_prompt", "DEFAULT_GREETING">>
                ELSE chat_history
    IN  IF outcome = "raises" THEN <<Apology, <<>> >>
        ELSE <<IF outcome = "no_text" THEN NoTextReply ELSE "reply",
               chat \o <<prompt, "reply">> >>

InitChat ==
    /\ IdleChat
    /\ IdleRec /\ IdleWeather /\ IdleItin /\ IdleTraffic
    /\ IdlePage /\ IdleLang /\ IdleSeason
    /\ done = {}

chatUnchanged == <<recVars, weatherVars, itinVars, trafficVars, pageVars, langVars,
                   seasonVars>>

\* render_chat_interface: a prompt typed into st.chat_input
TypePrompt ==
    /\ Len(messages) + 2 <= MaxChat
    /\ \E outcome \in ModelOutcomes :
         LET prompt == "typed prompt"
             result == generate_response(prompt, gemini_chat, outcome)
             response_text == result[1]
             chat == result[2]
         IN  /\ gemini_chat' = IF chat # <<>> THEN chat ELSE gemini_chat
             /\ messages' = Append(Append(messages, [role |-> "user", content |-> prompt]),
                                   [role |-> "assistant", content |-> response_text])
    /\ done' = done \cup {"chat_input"}
    /\ UNCHANGED chatUnchanged

\* add_message_and_get_response, called by the sidebar buttons
AddMessageAndGetResponse ==
    /\ Len(messages) + 2 <= MaxChat
    /\ \E prompt \in SidebarPrompts, outcome \in ModelOutcomes :
         LET with_user == Append(messages, [role |-> "user", content |-> prompt])
             result == generate_response(prompt, gemini_chat, outcome)
             response_text == result[1]
             chat == result[2]
         IN  /\ gemini_chat' = IF chat # <<>> THEN chat ELSE gemini_chat
             /\ messages' = Append(with_user,
                                   [role |-> "assistant", content |-> response_text])
    /\ done' = done \cup {"sidebar"}
    /\ UNCHANGED chatUnchanged

\* the Clear Chat button
ClearChat ==
    /\ messages' = <<Greeting>>
    /\ gemini_chat' = <<>>
    /\ done' = done \cup {"clear"}
    /\ UNCHANGED chatUnchanged

NextChat == TypePrompt \/ AddMessageAndGetResponse \/ ClearChat

SpecChat == InitChat /\ [][NextChat]_vars

\* C26: the history starts with the assistant greeting and then strictly
\* alternates user message, assistant message; every prompt adds one user
\* message and one assistant reply, which is the apology when the model
\* call fails, and then the stored chat session is left unchanged; Clear
\* Chat resets the history to the greeting and the chat session to none.
ChatInv ==
    /\ Len(messages) >= 1 /\ messages[1] = Greeting
    /\ Len(messages) % 2 = 1
    /\ \A k \in 2..Len(messages) :
         messages[k].role = (IF k % 2 = 0 THEN "user" ELSE "assistant")
ChatStep ==
    /\ Len(messages') > Len(messages) =>
         /\ Len(messages') = Len(messages) + 2
         /\ SubSeq(messages', 1, Len(messages)) = messages
         /\ messages'[Len(messages')].content = Apology => gemini_chat' = gemini_chat
         /\ messages'[Len(messages')].content # Apology =>
              /\ Len(gemini_chat') = Len(gemini_chat) + (IF gemini_chat = <<>> THEN 4 ELSE 2)
              /\ gemini_chat'[Len(gemini_chat') - 1] = messages'[Len(messages') - 1].content
    /\ Len(messages') <= Len(messages) => (messages' = <<Greeting>> /\ gemini_chat' = <<>>)
Thm_C26_ChatAlternates == []ChatInv /\ [][ChatStep]_vars

\* a successful exchange followed by a failed sidebar prompt: the session
\* still holds the first exchange only
Wit_C26_FailedSecondPrompt ==
    /\ Len(messages) = 5
    /\ messages[3].content = "reply"
    /\ messages[4].content = "discover region"
    /\ messages[5].content = Apology
    /\ Len(gemini_chat) = 4


(***************************************************************************)
(* The trip-type selectbox of the planning page under the interface        *)
(* languages (web.py 131-150, 1175-1184).  The module translations is not  *)
(* part of the sources at hand: the table it returns is one of several     *)
(* tables: with English labels only, or also with labels of their own for *)
(* Hindi, or for Hindi and Kannada.                                        *)
(***************************************************************************)
HindiLabels == [adventure |-> "Sahasik", relaxation |-> "Vishram",
                cultural |-> "Sanskritik"]
KannadaLabels == [adventure |-> "Sahasa", relaxation |-> "Vishranti",
                  cultural |-> "Samskritika"]
load_translations ==
    {[en |-> EnglishLabels],
     [en |-> EnglishLabels, hi |-> HindiLabels],
     [en |-> EnglishLabels, hi |-> HindiLabels, kn |-> KannadaLabels]}

\* web.py 133-141: a language without a table gets a copy of the English one
WithEnglishDefaults(table) ==
    [code \in LangCodes |-> IF code \in DOMAIN table THEN table[code] ELSE table.en]

InitLang ==
    /\ \E table \in load_translations : translations = WithEnglishDefaults(table)
    /\ lang_code = "en"
    /\ trip_option = 0
    /\ user_preferences = SidebarUserPreferences(translations, lang_code, trip_option)
    /\ places = <<>> /\ traffic_data = EmptyPrefs
    /\ weather_quality = 5
    /\ recommendations = <<>> /\ recommendations_by_time = <<>>
    /\ app_recommendations = <<>>
    /\ IdleWeather /\ IdleItin /\ IdleTraffic /\ IdlePage /\ IdleChat /\ IdleSeason
    /\ done = {}

\* another option of the trip-type selectbox is selected
SelectTripType ==
    /\ \E option \in 0..2 :
         /\ option # trip_option
         /\ trip_option' = option
         /\ user_preferences' = SidebarUserPreferences(translations, lang_code, option)
    /\ handler' = "select_trip_type"
    /\ UNCHANGED <<places, traffic_data, weather_quality, recommendations,
                   recommendations_by_time, app_recommendations,
                   weatherVars, itinVars, trafficVars, chatVars,
                   destination, lat, lng, user_lat, user_lng,
                   pit_stops, pit_stop_count, pit_stop_data,
                   lang_code, translations, seasonVars, done>>

NextLang == SelectLanguage \/ SelectTripType \/ PlanTripWeb

SpecLang == InitLang /\ [][NextLang]_vars

====
